---- MODULE Spec2Model ----
(***************************************************************************)
(* A model of the text-to-speech dispatch layer: input validation, engine  *)
(* dispatch (libs/tts_lib.py and libs/api.py + libs/tools.py), playback,   *)
(* the command line tool (cli.py) and the interactive application          *)
(* (app.py).                                                               *)
(*                                                                         *)
(* Strings.  A text is kept run-length encoded: a sequence of runs         *)
(* [ch, n] standing for n copies of the character ch, adjacent runs having *)
(* different characters.  This keeps the 5000 character limit of           *)
(* validate_text at its real value.  Language codes and file names are     *)
(* sequences of one-character strings.  A Python value that is not a str   *)
(* is a record whose str field is FALSE.                                   *)
(***************************************************************************)
EXTENDS Integers, Sequences, FiniteSets, TLC

----------------------------------------------------------------------------
(* Bounds of the model *)

\* longest text, in runs
MaxRuns == 3
\* longest language code, in characters
MaxLangLen == 3

----------------------------------------------------------------------------
(* Texts *)

\* characters removed by str.strip()
Whitespace == {" ", "\n"}

TextChars == {" ", "\n", "a"}

\* the limit of validate_text
MAX_TEXT_LEN == 5000

RunLengths == {1, MAX_TEXT_LEN - 1, MAX_TEXT_LEN}

Runs == [ch : TextChars, n : RunLengths]

\* run-length encodings of strings: adjacent runs differ in their character
RunSeqs(k) ==
    {rs \in UNION {[1..m -> Runs] : m \in 0..k} :
        \A i \in 1..(Len(rs) - 1) : rs[i].ch # rs[i + 1].ch}

StrText(rs) == [str |-> TRUE, runs |-> rs]

\* a value that is not a str (None, a number, ...)
NotAText == [str |-> FALSE, runs |-> <<>>]

Texts == {StrText(rs) : rs \in RunSeqs(MaxRuns)} \cup {NotAText}

RECURSIVE RunsLen(_)
\* len(s)
RunsLen(rs) == IF rs = <<>> THEN 0 ELSE Head(rs).n + RunsLen(Tail(rs))

RECURSIVE LStrip(_)
LStrip(rs) ==
    IF rs = <<>> THEN <<>>
    ELSE IF Head(rs).ch \in Whitespace THEN LStrip(Tail(rs))
    ELSE rs

RECURSIVE RStrip(_)
RStrip(rs) ==
    IF rs = <<>> THEN <<>>
    ELSE IF rs[Len(rs)].ch \in Whitespace THEN RStrip(SubSeq(rs, 1, Len(rs) - 1))
    ELSE rs

\* str.strip()
Strip(rs) == RStrip(LStrip(rs))

----------------------------------------------------------------------------
(* Results of a call: err is "none" for a normal return, else the class    *)
(* of the exception raised                                                 *)

Ok(v) == [err |-> "none", val |-> v]
Raise(e, v) == [err |-> e, val |-> v]

\* the classes derived from TTSException, and TTSException itself
TTSExceptions == {"TTSException", "ValidationError", "EngineNotAvailableError"}

----------------------------------------------------------------------------
(* Validation *)

\* validate_text measuring the text before it is trimmed
validate_text_untrimmed(text) ==
    IF ~text.str THEN Raise("ValidationError", text)
    ELSE IF Strip(text.runs) = <<>> THEN Raise("ValidationError", text)
    ELSE IF RunsLen(text.runs) > MAX_TEXT_LEN THEN Raise("ValidationError", text)
    ELSE Ok(StrText(Strip(text.runs)))

\* validate_text without the emptiness check
validate_text_allow_blank(text) ==
    IF ~text.str THEN Raise("ValidationError", text)
    ELSE IF RunsLen(Strip(text.runs)) > MAX_TEXT_LEN THEN Raise("ValidationError", text)
    ELSE Ok(StrText(Strip(text.runs)))

validate_text(text) ==
    IF ~text.str THEN Raise("ValidationError", text)
    ELSE LET cleaned_text == Strip(text.runs)
         IN  IF cleaned_text = <<>> THEN Raise("ValidationError", text)
             ELSE IF RunsLen(cleaned_text) > MAX_TEXT_LEN
                  THEN Raise("ValidationError", text)
             ELSE Ok(StrText(cleaned_text))

LangChars == {"e", "E", "n", "N", "1"}

UpperCase == {"E", "N", "Q"}

\* str.lower() on one character
LowerChar(c) == CASE c = "E" -> "e" [] c = "N" -> "n" [] c = "Q" -> "q" [] OTHER -> c

\* str.lower()
Lower(s) == [i \in 1..Len(s) |-> LowerChar(s[i])]

CharSeqs(k) == UNION {[1..m -> LangChars] : m \in 0..k}

StrLang(s) == [str |-> TRUE, s |-> s]

\* a two-element list: not a str, though its len() is 2
NotALang == [str |-> FALSE, s |-> <<"e", "n">>]

Languages == {StrLang(s) : s \in CharSeqs(MaxLangLen)} \cup {NotALang}

\* validate_language returning the code as given
validate_language_keepcase(language) ==
    IF ~language.str \/ Len(language.s) # 2
    THEN Raise("ValidationError", language)
    ELSE Ok(language)

validate_language(language) ==
    IF ~language.str \/ Len(language.s) # 2
    THEN Raise("ValidationError", language)
    ELSE Ok(StrLang(Lower(language.s)))

----------------------------------------------------------------------------
(* File names, the file system and the clock *)

\* more bounds: the last clock second, the temporary files one run may make
MaxClock == 2
MaxTemp == 3

DOT == "."
SEP == "/"

WAV == <<"w", "a", "v">>
MP3 == <<"m", "p", "3">>

EXT_WAV == <<DOT, "w", "a", "v">>
EXT_MP3 == <<DOT, "m", "p", "3">>

Digits == <<"0", "1", "2", "3", "4", "5", "6", "7", "8", "9">>

\* the day and the minute of the run, as strftime prints them
YMD == <<"2", "0", "2", "4", "0", "1", "0", "1">>
HM == <<"0", "0", "0", "0">>

\* datetime.now().strftime("%Y%m%d_%H%M%S"): the seconds are the clock in
\* two digits
Timestamp(now) ==
    YMD \o <<"_">> \o HM \o <<Digits[((now \div 10) % 10) + 1], Digits[(now % 10) + 1]>>

\* generate_timestamp_filename that drops the prefix
generate_timestamp_filename_noprefix(prefix, extension, now) ==
    Timestamp(now) \o <<DOT>> \o extension

generate_timestamp_filename(prefix, extension, now) ==
    IF prefix # <<>>
    THEN prefix \o <<"_">> \o Timestamp(now) \o <<DOT>> \o extension
    ELSE Timestamp(now) \o <<DOT>> \o extension

EndsWith(s, suffix) ==
    /\ Len(s) >= Len(suffix)
    /\ SubSeq(s, Len(s) - Len(suffix) + 1, Len(s)) = suffix

\* s.rsplit('.', 1)[0]
RSplitDot(s) ==
    LET dots == {i \in 1..Len(s) : s[i] = DOT}
    IN  IF dots = {} THEN s
        ELSE SubSeq(s, 1, (CHOOSE i \in dots : \A j \in dots : j <= i) - 1)

\* the file name argument: None, or a str
NoFile == [given |-> FALSE, path |-> <<>>]
File(p) == [given |-> TRUE, path |-> p]

FileNames ==
    { <<"o">> \o EXT_MP3,
      <<"o">> \o EXT_WAV,
      <<"o">>,
      <<"d", DOT, "d", SEP, "o">>,
      <<"d", SEP, "o">> \o EXT_MP3 }

\* tempfile.NamedTemporaryFile(suffix=...).name: a fresh name in the
\* temporary directory
TempName(k, suffix) == <<SEP, "t", SEP, Digits[k + 1]>> \o suffix

\* audio data a backend may produce; the first is the empty byte string
NoBytes == << >>
AudioData == {NoBytes, <<1, 2, 3>>, <<7>>}

\* the file names of the file system fs
Exists(f, path) == path \in DOMAIN f

\* open(path, 'wb').write(data)
WriteFile(f, path, data) ==
    [p \in (DOMAIN f) \cup {path} |-> IF p = path THEN data ELSE f[p]]

\* os.unlink(path)
Unlink(f, path) == [p \in (DOMAIN f) \ {path} |-> f[p]]

\* os.rename(src, dst)
Rename(f, src, dst) ==
    [p \in ((DOMAIN f) \ {src}) \cup {dst} |-> IF p = dst THEN f[src] ELSE f[p]]

EmptyFs == [p \in {} |-> NoBytes]

----------------------------------------------------------------------------
(* Engines *)

REGISTERED == {"pyttsx3", "gtts"}

\* engine identifiers a caller may pass
EngineIds == {"pyttsx3", "gtts", "coqui", "GTTS"}

\* PYTTSX3_AVAILABLE, GTTS_AVAILABLE, PYGAME_AVAILABLE
Availabilities == [pyttsx3 : BOOLEAN, gtts : BOOLEAN, pygame : BOOLEAN]

\* validate_engine without the availability checks
validate_engine_unchecked(engine, av) ==
    IF engine \notin REGISTERED THEN Raise("ValidationError", engine)
    ELSE Ok(engine)

\* validate_engine accepting every identifier
validate_engine_any(engine, av) ==
    IF engine = "pyttsx3" /\ ~av.pyttsx3 THEN Raise("EngineNotAvailableError", engine)
    ELSE IF engine = "gtts" /\ ~av.gtts THEN Raise("EngineNotAvailableError", engine)
    ELSE Ok(engine)

validate_engine(engine, av) ==
    IF engine \notin REGISTERED THEN Raise("ValidationError", engine)
    ELSE IF engine = "pyttsx3" /\ ~av.pyttsx3 THEN Raise("EngineNotAvailableError", engine)
    ELSE IF engine = "gtts" /\ ~av.gtts THEN Raise("EngineNotAvailableError", engine)
    ELSE Ok(engine)

get_default_config ==
    [engine |-> "gtts", language |-> <<"e", "n">>, rate |-> 150, volume |-> "0.9",
     slow |-> FALSE]

\* config.update({'engine': ..., 'language': ...})
ConfigFor(engine, language) ==
    [get_default_config EXCEPT !.engine = engine, !.language = language.s]

\* get_engine_function: the engines of the function table
get_engine_function(engine_type) ==
    IF engine_type \notin {"pyttsx3", "gtts"}
    THEN Raise("ValidationError", engine_type)
    ELSE Ok(engine_type)

\* the extension text_to_speech_file forces on the file name
EngineExt(engine) == IF engine = "pyttsx3" THEN EXT_WAV ELSE EXT_MP3

\* the file name text_to_speech_file hands to the engine
NormaliseFilename(filename, engine, now) ==
    LET named == IF filename.given THEN filename.path
                 ELSE Timestamp(now) \o EngineExt(engine)
    IN  IF engine = "pyttsx3" /\ ~EndsWith(named, EXT_WAV)
        THEN RSplitDot(named) \o EXT_WAV
        ELSE IF engine = "gtts" /\ ~EndsWith(named, EXT_MP3)
        THEN RSplitDot(named) \o EXT_MP3
        ELSE named

----------------------------------------------------------------------------
(* State *)

VARIABLES
    prog,       \* the entry point of this run
    lib,        \* the library variant: "tts_lib" or "api"
    avail,      \* the availability flags set at import
    pc,         \* the statement about to run
    stack,      \* where the calls in progress return to
    arg,        \* the arguments of the text_to_speech_* call in progress
    loc,        \* its locals
    lookups,    \* the number of get_engine_function calls so far
    calls,      \* the engine functions invoked so far, in order
    ret,        \* the result of the call that returned last
    fs,         \* the files on disk and their content
    clock,      \* the wall clock, in seconds
    ntemp,      \* the temporary files made so far
    events,     \* what the outputs did so far, in order
    pl,         \* the argument of the play_audio call in progress
    dirs,       \* the directories on disk
    cli,        \* the state of cli.main
    app,        \* the state of app.main
    batch       \* the state of batch_tts

vars == <<prog, lib, avail, pc, stack, arg, loc, lookups, calls, ret, fs, clock,
          ntemp, events, pl, dirs, cli, app, batch>>

NoLoc ==
    [text |-> NotAText, engine |-> "", language |-> NotALang,
     config |-> get_default_config, filename |-> <<>>, temp |-> <<>>, model |-> "",
     voice_dir |-> "", hub_language |-> <<>>, speaker |-> ""]

\* the call returns (or raises) r to the statement that made it
Return(r) ==
    /\ ret' = r
    /\ pc' = Head(stack)
    /\ stack' = Tail(stack)

\* an entry of the history of the outputs
Ev(e, p, d) == [ev |-> e, path |-> p, data |-> d]

\* the time a slow operation takes
Tick == \E d \in {0, 1} : clock + d <= MaxClock /\ clock' = clock + d

\* the engine function of the call in progress raised
Failed ==
    IF arg.fmt = "file" THEN Ev("write_failed", loc.filename, NoBytes)
    ELSE Ev("bytes_failed", <<>>, NoBytes)

CallRecord(kind) ==
    [fn |-> kind, engine |-> loc.engine, text |-> loc.text,
     language |-> loc.config.language, filename |-> loc.filename]

----------------------------------------------------------------------------
(* text_to_speech_file and text_to_speech_bytes, statement by statement *)

TtsValidateText ==
    /\ pc = "validate_text"
    /\ LET r == validate_text(arg.text)
       IN  IF r.err # "none"
           THEN Return(Raise(r.err, <<>>)) /\ loc' = loc
           ELSE /\ loc' = [loc EXCEPT !.text = r.val]
                /\ pc' = "validate_engine"
                /\ UNCHANGED <<ret, stack>>
    /\ UNCHANGED <<prog, lib, avail, arg, lookups, calls, fs, clock, ntemp, events,
                   pl, dirs, cli, app, batch>>

TtsValidateEngine ==
    /\ pc = "validate_engine"
    /\ LET r == validate_engine(arg.engine, avail)
       IN  IF r.err # "none"
           THEN Return(Raise(r.err, <<>>)) /\ loc' = loc
           ELSE /\ loc' = [loc EXCEPT !.engine = r.val]
                /\ pc' = "validate_language"
                /\ UNCHANGED <<ret, stack>>
    /\ UNCHANGED <<prog, lib, avail, arg, lookups, calls, fs, clock, ntemp, events,
                   pl, dirs, cli, app, batch>>

\* validate_language, then the config is built from the validated values
TtsValidateLanguage ==
    /\ pc = "validate_language"
    /\ LET r == validate_language(arg.language)
       IN  IF r.err # "none"
           THEN Return(Raise(r.err, <<>>)) /\ loc' = loc
           ELSE /\ loc' = [loc EXCEPT !.language = r.val,
                                      !.config = ConfigFor(loc.engine, r.val)]
                /\ pc' = "get_engine_function"
                /\ UNCHANGED <<ret, stack>>
    /\ UNCHANGED <<prog, lib, avail, arg, lookups, calls, fs, clock, ntemp, events,
                   pl, dirs, cli, app, batch>>

\* get_engine_function, then (text_to_speech_file) the file name is settled
TtsGetEngineFunction ==
    /\ pc = "get_engine_function"
    /\ lookups' = lookups + 1
    /\ LET r == get_engine_function(loc.engine)
       IN  IF r.err # "none"
           THEN Return(Raise(r.err, <<>>)) /\ loc' = loc
           ELSE /\ loc' = IF arg.fmt = "file"
                          THEN [loc EXCEPT !.filename =
                                    NormaliseFilename(arg.filename, loc.engine, clock)]
                          ELSE loc
                /\ pc' = "invoke"
                /\ UNCHANGED <<ret, stack>>
    /\ UNCHANGED <<prog, lib, avail, arg, calls, fs, clock, ntemp, events, pl, dirs, cli, app, batch>>

\* gtts_to_file / gtts.to_file: gTTS(...).save(filename)
GttsToFile ==
    /\ pc = "invoke" /\ loc.engine = "gtts" /\ arg.fmt = "file"
    /\ calls' = Append(calls, CallRecord("file"))
    /\ Tick
    /\ IF ~avail.gtts
       THEN Return(Raise("EngineNotAvailableError", <<>>)) /\ UNCHANGED <<fs, events>>
       ELSE \/ \E data \in AudioData :
                  /\ fs' = WriteFile(fs, loc.filename, data)
                  /\ events' = Append(events, Ev("write", loc.filename, data))
                  /\ Return(Ok(loc.filename))
            \* the service or the disk fails, before save() has opened the
            \* file or after it has (the file is then left empty)
            \/ /\ fs' \in {fs, WriteFile(fs, loc.filename, NoBytes)}
               /\ events' = Append(events, Failed)
               /\ Return(Raise("TTSException", <<>>))
    /\ UNCHANGED <<prog, lib, avail, arg, loc, lookups, ntemp, pl, dirs, cli, app, batch>>

\* gtts_to_bytes / gtts.to_bytes: gTTS(...).write_to_fp(buffer)
GttsToBytes ==
    /\ pc = "invoke" /\ loc.engine = "gtts" /\ arg.fmt = "bytes"
    /\ calls' = Append(calls, CallRecord("bytes"))
    /\ Tick
    /\ IF ~avail.gtts
       THEN Return(Raise("EngineNotAvailableError", <<>>)) /\ UNCHANGED events
       ELSE \/ \E data \in AudioData :
                  /\ events' = Append(events, Ev("bytes", <<>>, data))
                  /\ Return(Ok(data))
            \/ /\ events' = Append(events, Failed)
               /\ Return(Raise("TTSException", <<>>))
    /\ UNCHANGED <<prog, lib, avail, arg, loc, lookups, fs, ntemp, pl, dirs, cli, app, batch>>

\* pyttsx3_to_file / pyttsx3_to_bytes up to the try: the engine is
\* initialised and the temporary file is made
Pyttsx3Init ==
    /\ pc = "invoke" /\ loc.engine = "pyttsx3"
    /\ ntemp < MaxTemp
    /\ calls' = Append(calls, CallRecord(arg.fmt))
    /\ IF ~avail.pyttsx3
       THEN /\ Return(Raise("EngineNotAvailableError", <<>>))
            /\ events' = Append(events, Failed)
            /\ UNCHANGED <<loc, fs, ntemp>>
       ELSE \* pyttsx3.init() raises
            \/ /\ Return(Raise("EngineNotAvailableError", <<>>))
               /\ events' = Append(events, Failed)
               /\ UNCHANGED <<loc, fs, ntemp>>
            \/ /\ loc' = [loc EXCEPT !.temp = TempName(ntemp, EXT_WAV)]
               /\ fs' = WriteFile(fs, TempName(ntemp, EXT_WAV), NoBytes)
               /\ ntemp' = ntemp + 1
               /\ pc' = "pyttsx3_run"
               /\ UNCHANGED <<ret, stack, events>>
    /\ UNCHANGED <<prog, lib, avail, arg, lookups, clock, pl, dirs, cli, app, batch>>

\* the clauses without their os.unlink
Pyttsx3Cleanup_keeps(f) == f

\* what the except (to_file) and finally (to_bytes) clauses do to the disk
Pyttsx3Cleanup(f) == IF Exists(f, loc.temp) THEN Unlink(f, loc.temp) ELSE f

\* Pyttsx3Run starting the engine function again when the backend raises
Pyttsx3Run_retry ==
    /\ pc = "pyttsx3_run"
    /\ Tick
    /\ \/ \E data \in AudioData :
             /\ fs' = WriteFile(fs, loc.temp, data)
             /\ pc' = "pyttsx3_finish"
       \/ /\ fs' = Pyttsx3Cleanup(fs)
          /\ pc' = "invoke"
    /\ UNCHANGED <<prog, lib, avail, arg, loc, lookups, calls, ntemp, pl, dirs, cli, app,
                   batch, ret, stack, events>>

\* engine.save_to_file(text, temp_filename); engine.runAndWait()
Pyttsx3Run ==
    /\ pc = "pyttsx3_run"
    /\ Tick
    /\ \/ \E data \in AudioData :
             /\ fs' = WriteFile(fs, loc.temp, data)
             /\ pc' = "pyttsx3_finish"
             /\ UNCHANGED <<ret, stack, events>>
       \/ /\ fs' = Pyttsx3Cleanup(fs)
          /\ events' = Append(events, Failed)
          /\ Return(Raise("TTSException", <<>>))
    /\ UNCHANGED <<prog, lib, avail, arg, loc, lookups, calls, ntemp, pl, dirs, cli, app, batch>>

\* libs/pyttsx3.py only: the output file exists and is not empty
Pyttsx3Verified(f) ==
    lib = "api" => (Exists(f, loc.temp) /\ f[loc.temp] # NoBytes)

\* to_file after runAndWait: verify, os.rename(temp_filename, filename)
Pyttsx3FinishFile ==
    /\ pc = "pyttsx3_finish" /\ arg.fmt = "file"
    /\ \/ /\ Pyttsx3Verified(fs)
          /\ fs' = Rename(fs, loc.temp, loc.filename)
          /\ events' = Append(events, Ev("write", loc.filename, fs[loc.temp]))
          /\ Return(Ok(loc.filename))
       \* the check fails, or os.rename raises
       \/ /\ fs' = Pyttsx3Cleanup(fs)
          /\ events' = Append(events, Failed)
          /\ Return(Raise("TTSException", <<>>))
    /\ UNCHANGED <<prog, lib, avail, arg, loc, lookups, calls, clock, ntemp, pl, dirs, cli, app, batch>>

\* to_bytes after runAndWait: verify, read the file, delete it
Pyttsx3FinishBytes ==
    /\ pc = "pyttsx3_finish" /\ arg.fmt = "bytes"
    /\ fs' = Pyttsx3Cleanup(fs)
    /\ \/ /\ Pyttsx3Verified(fs)
          /\ events' = Append(events, Ev("bytes", <<>>, fs[loc.temp]))
          /\ Return(Ok(fs[loc.temp]))
       \* the check fails, or open/read raises
       \/ Return(Raise("TTSException", <<>>)) /\ events' = Append(events, Failed)
    /\ UNCHANGED <<prog, lib, avail, arg, loc, lookups, calls, clock, ntemp,
                   pl, dirs, cli, app, batch>>

\* an empty buffer: io.BytesIO()
BytesIO_empty(data) == [bytesio |-> TRUE, buf |-> NoBytes]

\* io.BytesIO(audio_bytes)
BytesIO(data) == [bytesio |-> TRUE, buf |-> data]

\* text_to_speech_bytesio calls text_to_speech_bytes
BytesioCall ==
    /\ pc = "bytesio_call"
    /\ arg' = [arg EXCEPT !.fmt = "bytes"]
    /\ stack' = <<"bytesio_wrap">> \o stack
    /\ pc' = "validate_text"
    /\ UNCHANGED <<prog, lib, avail, loc, lookups, calls, ret, fs, clock, ntemp,
                   events, pl, dirs, cli, app, batch>>

\* ... and wraps what comes back
BytesioWrap ==
    /\ pc = "bytesio_wrap"
    /\ IF ret.err # "none" THEN Return(ret) ELSE Return(Ok(BytesIO(ret.val)))
    /\ UNCHANGED <<prog, lib, avail, arg, loc, lookups, calls, fs, clock, ntemp,
                   events, pl, dirs, cli, app, batch>>

----------------------------------------------------------------------------
(* Playback: play_audio of tts_lib.py (which cli.py and app.py import) and  *)
(* play of libs/playback.py (lib = "api")                                  *)

\* the argument of play_audio: a str, a bytes, or something else; mixer
\* tells whether mixer.init() was reached, temp is the temporary file
PathSource(p) ==
    [kind |-> "path", path |-> p, data |-> NoBytes, mixer |-> FALSE, temp |-> <<>>]
BytesSource(d) ==
    [kind |-> "bytes", path |-> <<>>, data |-> d, mixer |-> FALSE, temp |-> <<>>]
OtherSource ==
    [kind |-> "other", path |-> <<>>, data |-> NoBytes, mixer |-> FALSE, temp |-> <<>>]
NoSource ==
    [kind |-> "none", path |-> <<>>, data |-> NoBytes, mixer |-> FALSE, temp |-> <<>>]

\* play_audio_file that does not look for the file
PlayAudioFile_unchecked ==
    /\ pc = "play_audio" /\ pl.kind = "path"
    /\ IF ~avail.pygame
       THEN /\ events' = Append(events, Ev("play_call", pl.path, NoBytes))
            /\ Return(Raise("EngineNotAvailableError", <<>>))
            /\ pl' = pl
       ELSE /\ events' = Append(events, Ev("play_call", pl.path, NoBytes))
            /\ Return(Raise("TTSException", <<>>))
            /\ pl' = [pl EXCEPT !.mixer = TRUE]
    /\ UNCHANGED <<prog, lib, avail, arg, loc, lookups, calls, fs, clock, ntemp,
                   dirs, cli, app, batch>>

\* play_audio on a str, that is play_audio_file / play_file
PlayAudioFile ==
    /\ pc = "play_audio" /\ pl.kind = "path"
    /\ IF ~avail.pygame
       THEN /\ events' = Append(events, Ev("play_call", pl.path, NoBytes))
            /\ Return(Raise("EngineNotAvailableError", <<>>))
            /\ pl' = pl
       ELSE IF ~Exists(fs, pl.path)
       THEN /\ events' = Append(events, Ev("play_call", pl.path, NoBytes))
            /\ Return(Raise("ValidationError", <<>>))
            /\ pl' = pl
       ELSE \* mixer.init(), load(), play() and the wait until it is over
            /\ pl' = [pl EXCEPT !.mixer = TRUE]
            /\ \/ /\ events' = Append(Append(events, Ev("play_call", pl.path, NoBytes)),
                                      Ev("played", pl.path, fs[pl.path]))
                  /\ Return(Ok(<<>>))
               \/ /\ events' = Append(events, Ev("play_call", pl.path, NoBytes))
                  /\ Return(Raise("TTSException", <<>>))
    /\ UNCHANGED <<prog, lib, avail, arg, loc, lookups, calls, fs, clock, ntemp,
                   dirs, cli, app, batch>>

\* play_audio on a bytes, that is play_audio_bytes / play_bytes, up to the
\* try: the temporary file is made; play_bytes also writes the audio to it
PlayAudioBytes ==
    /\ pc = "play_audio" /\ pl.kind = "bytes"
    /\ events' = Append(events, Ev("play_call", <<>>, pl.data))
    /\ IF ~avail.pygame
       THEN /\ Return(Raise("EngineNotAvailableError", <<>>))
            /\ UNCHANGED <<pl, fs, ntemp>>
       ELSE /\ ntemp < MaxTemp
            /\ ntemp' = ntemp + 1
            /\ pl' = [pl EXCEPT !.temp = TempName(ntemp, EXT_MP3)]
            /\ IF lib = "tts_lib"
               THEN /\ fs' = WriteFile(fs, TempName(ntemp, EXT_MP3), NoBytes)
                    /\ pc' = "play_bytes"
                    /\ UNCHANGED <<ret, stack>>
               ELSE \/ /\ fs' = WriteFile(fs, TempName(ntemp, EXT_MP3), pl.data)
                       /\ pc' = "play_bytes"
                       /\ UNCHANGED <<ret, stack>>
                    \* write() or flush() raises inside the with statement
                    \/ /\ fs' = WriteFile(fs, TempName(ntemp, EXT_MP3), NoBytes)
                       /\ Return(Raise("Exception", <<>>))
    /\ UNCHANGED <<prog, lib, avail, arg, loc, lookups, calls, clock, dirs, cli, app,
                   batch>>

\* the finally clause of play_audio_bytes / play_bytes
PlayBytesCleanup(f) == IF Exists(f, pl.temp) THEN Unlink(f, pl.temp) ELSE f

\* the try statement of play_audio_bytes / play_bytes.  In tts_lib.py the
\* write is here, on the file the with statement has closed: it raises
\* ValueError, which the except clause turns into TTSException.  In
\* playback.py there is no except clause: what the mixer raises goes up.
PlayBytesTry ==
    /\ pc = "play_bytes"
    /\ fs' = PlayBytesCleanup(fs)
    /\ IF lib = "tts_lib"
       THEN /\ Return(Raise("TTSException", <<>>))
            /\ UNCHANGED <<pl, events>>
       ELSE /\ pl' = [pl EXCEPT !.mixer = TRUE]
            /\ \/ /\ events' = Append(events, Ev("played", pl.temp, fs[pl.temp]))
                  /\ Return(Ok(<<>>))
               \/ /\ Return(Raise("Exception", <<>>))
                  /\ UNCHANGED events
    /\ UNCHANGED <<prog, lib, avail, arg, loc, lookups, calls, clock, ntemp, dirs, cli,
                   app, batch>>

\* play_audio on anything else
PlayAudioOther ==
    /\ pc = "play_audio" /\ pl.kind = "other"
    /\ events' = Append(events, Ev("play_call", <<>>, NoBytes))
    /\ Return(Raise("ValidationError", <<>>))
    /\ UNCHANGED <<prog, lib, avail, arg, loc, lookups, calls, fs, clock, ntemp, pl,
                   dirs, cli, app, batch>>

----------------------------------------------------------------------------
(* cli.py *)

\* an option that was not given
NONE == "None"

LastSep(p) == CHOOSE i \in 0..Len(p) :
    /\ i > 0 => p[i] = SEP
    /\ \A j \in (i + 1)..Len(p) : p[j] # SEP

\* os.path.join(a, b) for a relative b
Join(a, b) ==
    IF a = <<>> \/ EndsWith(a, <<SEP>>) THEN a \o b ELSE a \o <<SEP>> \o b

\* a directory name without its trailing separator
StripSep(p) == IF Len(p) > 1 /\ EndsWith(p, <<SEP>>) THEN SubSeq(p, 1, Len(p) - 1) ELSE p

\* str(Path(p).parent)
ParentDir(p) ==
    LET q == StripSep(p)
    IN  IF LastSep(q) = 0 THEN <<DOT>>
        ELSE IF LastSep(q) = 1 THEN <<SEP>>
        ELSE SubSeq(q, 1, LastSep(q) - 1)

\* ensure_audio_directory: Path(directory).mkdir(parents=True, exist_ok=True)
ensure_audio_directory(ds, directory) ==
    LET d == StripSep(directory)
    IN  ds \cup {d} \cup {SubSeq(d, 1, i - 1) : i \in {j \in 2..Len(d) : d[j] = SEP}}

\* the extension cli.py chooses for the engine
CliExtension(engine) == IF engine = "gtts" THEN MP3 ELSE WAV

\* determine_output_filename taking every --file value as a file name
determine_output_filename_verbatim(args, config, engine, now, ds) ==
    IF ~args.file.given THEN [name |-> NoFile, dirs |-> ds]
    ELSE [name |-> args.file, dirs |-> ds]

\* determine_output_filename: the name (None when --file is absent) and the
\* directories on disk afterwards
determine_output_filename(args, config, engine, now, ds) ==
    LET extension == CliExtension(engine)
        audio_dir == IF args.audio_dir # <<>> THEN args.audio_dir
                     ELSE config.audio_directory
    IN  IF ~args.file.given THEN [name |-> NoFile, dirs |-> ds]
        ELSE IF args.file.path = <<>>
        THEN [name |-> File(Join(audio_dir,
                                 generate_timestamp_filename(<<>>, extension, now))),
              dirs |-> ensure_audio_directory(ds, audio_dir)]
        ELSE IF EndsWith(args.file.path, <<SEP>>) \/ StripSep(args.file.path) \in ds
        THEN [name |-> File(Join(args.file.path,
                                 generate_timestamp_filename(<<>>, extension, now))),
              dirs |-> ensure_audio_directory(ds, args.file.path)]
        ELSE [name |-> args.file,
              dirs |-> IF ParentDir(args.file.path) # <<DOT>>
                       THEN ensure_audio_directory(ds, ParentDir(args.file.path))
                       ELSE ds]

\* determine_playback_setting that plays only on --play
determine_playback_setting_explicit(args) == args.play

determine_playback_setting(args) ==
    IF args.play THEN TRUE
    ELSE IF ~args.file.given THEN TRUE
    ELSE FALSE

\* determine_text_input: args.text, or the stripped content of args.text_file
determine_text_input(args) ==
    IF args.input.src = "file"
    THEN IF ~args.input.readable \/ ~args.input.text.str
              \/ Strip(args.input.text.runs) = <<>>
         THEN Raise("ValidationError", NotAText)
         ELSE Ok(StrText(Strip(args.input.text.runs)))
    ELSE IF args.input.text.str /\ args.input.text.runs # <<>>
    THEN Ok(args.input.text)
    ELSE Raise("ValidationError", NotAText)

\* x or y, for str options
OrElse(x, y) == IF x = NONE \/ x = "" THEN y ELSE x

\* the same for a language code
OrElseLang(x, y) == IF x.s = <<>> THEN y ELSE x

\* --language as typed: absent, or given with a value
NoOption == [given |-> FALSE, s |-> <<>>]
Option(s) == [given |-> TRUE, s |-> s]

\* what parse_args makes of it: the parser has default='en'
ArgLanguage(opt) == IF opt.given THEN StrLang(opt.s) ELSE StrLang(<<"e", "n">>)

\* a key that .env does not set (TTS_LANGUAGE and AUDIO_DIRECTORY are
\* options, as --language is)
UNSET == "unset"

\* load_env_config: the hard-coded defaults, overridden by what .env sets
load_env_config(dotenv) ==
    [engine |-> IF dotenv.tts_engine = UNSET THEN "gtts" ELSE dotenv.tts_engine,
     language |-> IF ~dotenv.tts_language.given THEN StrLang(<<"e", "n">>)
                  ELSE StrLang(dotenv.tts_language.s),
     output_format |-> IF dotenv.default_output_format = UNSET THEN "file"
                       ELSE dotenv.default_output_format,
     audio_directory |-> IF ~dotenv.audio_directory.given
                         THEN <<"a", "u", "d", "i", "o">>
                         ELSE dotenv.audio_directory.s]

NoDotEnv ==
    [tts_engine |-> UNSET, tts_language |-> NoOption, default_output_format |-> UNSET,
     audio_directory |-> NoOption]

NoCli ==
    [args |-> [input |-> [src |-> "text", text |-> NotAText, readable |-> FALSE],
               file |-> NoFile, play |-> FALSE, format |-> NONE, engine |-> NONE,
               language |-> NotALang, audio_dir |-> <<>>, verbose |-> FALSE,
               quiet |-> FALSE],
     env |-> [engine |-> "", language |-> NotALang, output_format |-> "",
              audio_directory |-> <<>>],
     text |-> NotAText, engine |-> "", language |-> NotALang, output_format |-> "",
     output_filename |-> NoFile, should_play |-> FALSE, filename |-> <<>>,
     temp_filename |-> <<>>, exit |-> "running", argv_language |-> NoOption,
     dotenv |-> NoDotEnv]

\* main returns code, or (code = "None") falls off its end
CliExit(code) ==
    /\ cli' = [cli EXCEPT !.exit = code]
    /\ pc' = "done"

\* main up to "Generate TTS": the arguments and the configuration are
\* resolved, the directories are made, and the branch is chosen.  The
\* bytesio branch is "cli_bytesio"; "cli_fall_through" is the end of main
\* reached without a return.
CliMain ==
    /\ pc = "cli_main"
    /\ IF cli.args.verbose /\ cli.args.quiet
       THEN CliExit("1") /\ UNCHANGED dirs
       ELSE LET text == determine_text_input(cli.args)
                engine == OrElse(cli.args.engine, cli.env.engine)
                language == OrElseLang(cli.args.language, cli.env.language)
                output_format == OrElse(cli.args.format, cli.env.output_format)
                out == determine_output_filename(cli.args, cli.env, engine, clock, dirs)
                should_play == determine_playback_setting(cli.args)
            IN  IF text.err # "none"
                THEN CliExit("1") /\ UNCHANGED dirs
                ELSE /\ dirs' = out.dirs
                     /\ cli' = [cli EXCEPT !.text = text.val, !.engine = engine,
                                           !.language = language,
                                           !.output_format = output_format,
                                           !.output_filename = out.name,
                                           !.should_play = should_play]
                     /\ pc' = IF output_format = "file"
                                 \/ (out.name.given /\ out.name.path # <<>>)
                                 \/ should_play
                              THEN IF out.name.given /\ out.name.path # <<>>
                                   THEN "cli_save"
                                   ELSE IF should_play THEN "cli_temp"
                                   ELSE "cli_fall_through"
                              ELSE IF output_format = "bytesio" THEN "cli_bytesio"
                              ELSE "cli_fall_through"
    /\ UNCHANGED <<prog, lib, avail, stack, arg, loc, lookups, calls, ret, fs, clock,
                   ntemp, events, pl>>
    /\ UNCHANGED <<app, batch>>

\* the arguments main gives text_to_speech_file
CliTtsArgs(filename) ==
    [fmt |-> "file", text |-> cli.text, engine |-> cli.engine,
     language |-> cli.language, filename |-> File(filename)]

\* if output_filename: filename = text_to_speech_file(...)
CliSave ==
    /\ pc = "cli_save"
    /\ arg' = CliTtsArgs(cli.output_filename.path)
    /\ loc' = NoLoc
    /\ stack' = <<"cli_saved">> \o stack
    /\ pc' = "validate_text"
    /\ UNCHANGED <<prog, lib, avail, lookups, calls, ret, fs, clock, ntemp, events, pl,
                   dirs, cli, app, batch>>

\* CliSaved playing the name that was asked for, not the name that was written
CliSaved_plays_requested ==
    /\ pc = "cli_saved"
    /\ IF ret.err # "none" THEN CliExit("1") /\ UNCHANGED <<stack, pl>>
       ELSE IF ~Exists(fs, ret.val) THEN CliExit("1") /\ UNCHANGED <<stack, pl>>
       ELSE IF cli.should_play
       THEN /\ cli' = [cli EXCEPT !.filename = ret.val]
            /\ pl' = PathSource(cli.output_filename.path)
            /\ stack' = <<"cli_played">> \o stack
            /\ pc' = "play_audio"
       ELSE /\ cli' = [cli EXCEPT !.filename = ret.val, !.exit = "0"]
            /\ pc' = "done"
            /\ UNCHANGED <<stack, pl>>
    /\ UNCHANGED <<prog, lib, avail, arg, loc, lookups, calls, ret, fs, clock, ntemp,
                   events, dirs, app, batch>>

\* os.path.getsize(filename), the success message, and play_audio(filename)
\* when playback was asked for
CliSaved ==
    /\ pc = "cli_saved"
    /\ IF ret.err # "none" THEN CliExit("1") /\ UNCHANGED <<stack, pl>>
       ELSE IF ~Exists(fs, ret.val) THEN CliExit("1") /\ UNCHANGED <<stack, pl>>
       ELSE IF cli.should_play
       THEN /\ cli' = [cli EXCEPT !.filename = ret.val]
            /\ pl' = PathSource(ret.val)
            /\ stack' = <<"cli_played">> \o stack
            /\ pc' = "play_audio"
       ELSE /\ cli' = [cli EXCEPT !.filename = ret.val, !.exit = "0"]
            /\ pc' = "done"
            /\ UNCHANGED <<stack, pl>>
    /\ UNCHANGED <<prog, lib, avail, arg, loc, lookups, calls, ret, fs, clock, ntemp,
                   events, dirs, app, batch>>

\* CliPlayed deleting the saved file when playback failed
CliPlayed_unlinks ==
    /\ pc = "cli_played"
    /\ IF ret.err # "none"
       THEN CliExit("1") /\ fs' = Unlink(fs, cli.filename)
       ELSE CliExit("0") /\ fs' = fs
    /\ UNCHANGED <<prog, lib, avail, stack, arg, loc, lookups, calls, ret, clock,
                   ntemp, events, pl, dirs, app, batch>>

\* after play_audio(filename): return 0, or the except clauses return 1
CliPlayed ==
    /\ pc = "cli_played"
    /\ IF ret.err # "none" THEN CliExit("1") ELSE CliExit("0")
    /\ UNCHANGED <<prog, lib, avail, stack, arg, loc, lookups, calls, ret, fs, clock,
                   ntemp, events, pl, dirs, app, batch>>

\* play-only mode: the temporary file is made and text_to_speech_file is
\* called with its name
CliTemp ==
    /\ pc = "cli_temp"
    /\ ntemp < MaxTemp
    /\ LET extension == CliExtension(cli.engine)
           temp_filename == TempName(ntemp, <<DOT>> \o extension)
       IN  /\ fs' = WriteFile(fs, temp_filename, NoBytes)
           /\ cli' = [cli EXCEPT !.temp_filename = temp_filename]
           /\ arg' = CliTtsArgs(temp_filename)
    /\ ntemp' = ntemp + 1
    /\ loc' = NoLoc
    /\ stack' = <<"cli_temp_made">> \o stack
    /\ pc' = "validate_text"
    /\ UNCHANGED <<prog, lib, avail, lookups, calls, ret, clock, events, pl, dirs, app, batch>>

\* the finally clause of play-only mode
CliTempCleanup(f) ==
    IF Exists(f, cli.temp_filename) THEN Unlink(f, cli.temp_filename) ELSE f

\* play-only mode after text_to_speech_file: play_audio(temp_filename)
CliTempMade ==
    /\ pc = "cli_temp_made"
    /\ IF ret.err # "none"
       THEN /\ fs' = CliTempCleanup(fs)
            /\ CliExit("1")
            /\ UNCHANGED <<stack, pl>>
       ELSE /\ pl' = PathSource(cli.temp_filename)
            /\ stack' = <<"cli_temp_played">> \o stack
            /\ pc' = "play_audio"
            /\ UNCHANGED <<fs, cli>>
    /\ UNCHANGED <<prog, lib, avail, arg, loc, lookups, calls, ret, clock, ntemp,
                   events, dirs, app, batch>>

\* CliTempPlayed returning 0 whatever play_audio did
CliTempPlayed_zero ==
    /\ pc = "cli_temp_played"
    /\ fs' = CliTempCleanup(fs)
    /\ CliExit("0")
    /\ UNCHANGED <<prog, lib, avail, stack, arg, loc, lookups, calls, ret, clock,
                   ntemp, events, pl, dirs, app, batch>>

\* play-only mode after play_audio: the temporary file is deleted
CliTempPlayed ==
    /\ pc = "cli_temp_played"
    /\ fs' = CliTempCleanup(fs)
    /\ IF ret.err # "none" THEN CliExit("1") ELSE CliExit("0")
    /\ UNCHANGED <<prog, lib, avail, stack, arg, loc, lookups, calls, ret, clock,
                   ntemp, events, pl, dirs, app, batch>>

----------------------------------------------------------------------------
(* app.py *)

\* the most lines one session reads
MaxInputs == 2

\* str.strip() on a sequence of characters
RECURSIVE StripChars(_)
StripChars(s) ==
    IF s = <<>> THEN <<>>
    ELSE IF Head(s) \in Whitespace THEN StripChars(Tail(s))
    ELSE IF s[Len(s)] \in Whitespace THEN StripChars(SubSeq(s, 1, Len(s) - 1))
    ELSE s

\* the run-length encoding of a sequence of characters
RECURSIVE ToRuns(_)
ToRuns(s) ==
    IF s = <<>> THEN <<>>
    ELSE LET rest == ToRuns(Tail(s))
         IN  IF rest # <<>> /\ rest[1].ch = Head(s)
             THEN <<[ch |-> Head(s), n |-> rest[1].n + 1]>> \o Tail(rest)
             ELSE <<[ch |-> Head(s), n |-> 1]>> \o rest

\* what the user may type at the prompt
AppLines ==
    { <<>>, <<" ">>, <<"q">>, <<"Q">>, <<"q", "u", "i", "t">>, <<"e", "x", "i", "t">>,
      <<"h", "e", "l", "p">>, <<"c", "l", "e", "a", "r">>, <<"l", "i", "s", "t">>,
      <<"a">>, <<" ", "a", "a", " ">> }

QuitWords == {<<"q", "u", "i", "t">>, <<"e", "x", "i", "t">>, <<"q">>}
OtherWords == {<<"h", "e", "l", "p">>, <<"c", "l", "e", "a", "r">>, <<"l", "i", "s", "t">>}

AUDIO == <<"a", "u", "d", "i", "o">>
EN == StrLang(<<"e", "n">>)

NoApp == [n |-> 0, user_input |-> <<>>, filename |-> <<>>, ended |-> "no"]

\* input("Enter text: ").strip() and the commands
AppRead ==
    /\ pc = "app_read"
    /\ Tick
    /\ \/ \* EOFError, or KeyboardInterrupt at the prompt
          /\ \E how \in {"eof", "interrupt"} : app' = [app EXCEPT !.ended = how]
          /\ pc' = "done"
          /\ UNCHANGED <<arg, loc, stack, dirs>>
       \/ \E line \in AppLines :
             LET user_input == StripChars(line)
             IN  /\ app.n < MaxInputs
                 /\ IF user_input = <<>> \/ Lower(user_input) \in OtherWords
                    THEN /\ app' = [app EXCEPT !.n = @ + 1, !.user_input = user_input]
                         /\ pc' = "app_read"
                         /\ UNCHANGED <<arg, loc, stack, dirs>>
                    ELSE IF Lower(user_input) \in QuitWords
                    THEN /\ app' = [app EXCEPT !.n = @ + 1, !.user_input = user_input,
                                               !.ended = "quit"]
                         /\ pc' = "done"
                         /\ UNCHANGED <<arg, loc, stack, dirs>>
                    ELSE \* process_text up to its text_to_speech_file call
                         /\ app' = [app EXCEPT !.n = @ + 1, !.user_input = user_input]
                         /\ dirs' = ensure_audio_directory(dirs, AUDIO)
                         /\ arg' = [fmt |-> "file", text |-> StrText(ToRuns(user_input)),
                                    engine |-> "gtts", language |-> EN,
                                    filename |-> File(Join(AUDIO,
                                        generate_timestamp_filename(<<>>, MP3, clock')))]
                         /\ loc' = NoLoc
                         /\ stack' = <<"app_processed">> \o stack
                         /\ pc' = "validate_text"
    /\ UNCHANGED <<prog, lib, avail, lookups, calls, ret, fs, ntemp, events, pl, cli,
                   batch>>

\* the rest of process_text, and play_audio_file(filename) if it gave a name
AppProcessed ==
    /\ pc = "app_processed"
    /\ IF ret.err # "none" \/ ~Exists(fs, ret.val) \/ ret.val = <<>>
       THEN /\ app' = [app EXCEPT !.filename = <<>>]
            /\ pc' = "app_read"
            /\ UNCHANGED <<stack, pl>>
       ELSE /\ app' = [app EXCEPT !.filename = ret.val]
            /\ pl' = PathSource(ret.val)
            /\ stack' = <<"app_played">> \o stack
            /\ pc' = "play_audio"
    /\ UNCHANGED <<prog, lib, avail, arg, loc, lookups, calls, ret, fs, clock, ntemp,
                   events, dirs, cli, batch>>

\* AppPlayed leaving the loop when play_audio raised
AppPlayed_stops ==
    /\ pc = "app_played"
    /\ pc' = IF ret.err # "none" THEN "done" ELSE "app_read"
    /\ UNCHANGED <<prog, lib, avail, stack, arg, loc, lookups, calls, ret, fs, clock,
                   ntemp, events, pl, dirs, cli, app, batch>>

\* play_audio_file swallows what play_audio raises; the loop goes on
AppPlayed ==
    /\ pc = "app_played"
    /\ pc' = "app_read"
    /\ UNCHANGED <<prog, lib, avail, stack, arg, loc, lookups, calls, ret, fs, clock,
                   ntemp, events, pl, dirs, cli, app, batch>>

----------------------------------------------------------------------------
(* engines/coquitts.py *)

MULTILINGUAL == "tts_models/multilingual/multi-dataset/xtts_v2"

\* get_model_name of coquitts.py
coqui_get_model_name(language) ==
    IF language \in {<<"r", "u">>, <<"u", "k">>, <<"z", "h">>, <<"j", "a">>,
                     <<"k", "o">>, <<"a", "r">>, <<"h", "i">>}
    THEN MULTILINGUAL
    ELSE CASE language = <<"e", "n">> -> "tts_models/en/ljspeech/tacotron2-DDC"
           [] language = <<"e", "s">> -> "tts_models/es/mai/tacotron2-DDC"
           [] language = <<"f", "r">> -> "tts_models/fr/mai/tacotron2-DDC"
           [] language = <<"d", "e">> -> "tts_models/de/thorsten/tacotron2-DDC"
           [] OTHER -> MULTILINGUAL

\* generate up to its inner try: the availability flag, the model
\* directory and its .pth file, TTS(model_name), the temporary file
CoquiGenerate ==
    /\ pc = "coqui_generate"
    /\ IF ~arg.available
       THEN /\ Return(Raise("EngineNotAvailableError", <<>>))
            /\ UNCHANGED <<loc, fs, ntemp, events>>
       ELSE IF arg.models # "ok"
       THEN \* no model directory, or no .pth file in it: return bytes()
            /\ Return(Ok(NoBytes))
            /\ loc' = [loc EXCEPT !.model = coqui_get_model_name(arg.language)]
            /\ UNCHANGED <<fs, ntemp, events>>
       ELSE \* TTS(model_name=...) raises
            \/ /\ Return(Raise("TTSException", <<>>))
               /\ events' = Append(events, Failed)
               /\ loc' = [loc EXCEPT !.model = coqui_get_model_name(arg.language)]
               /\ UNCHANGED <<fs, ntemp>>
            \/ /\ ntemp < MaxTemp
               /\ loc' = [loc EXCEPT !.temp = TempName(ntemp, EXT_WAV),
                                     !.model = coqui_get_model_name(arg.language)]
               /\ fs' = WriteFile(fs, TempName(ntemp, EXT_WAV), NoBytes)
               /\ ntemp' = ntemp + 1
               /\ pc' = "coqui_synth"
               /\ UNCHANGED <<ret, stack, events>>
    /\ UNCHANGED <<prog, lib, avail, arg, lookups, calls, clock, pl, dirs, cli, app,
                   batch>>

\* the finally clause of generate
CoquiCleanup(f) == IF Exists(f, loc.temp) THEN Unlink(f, loc.temp) ELSE f

\* the inner try: tts.tts_to_file, the check that the file is not empty,
\* the read; the finally clause deletes the file
CoquiSynth ==
    /\ pc = "coqui_synth"
    /\ Tick
    /\ fs' = CoquiCleanup(fs)
    /\ \/ \E data \in AudioData \ {NoBytes} :
             /\ events' = Append(events, Ev("bytes", <<>>, data))
             /\ Return(Ok(data))
       \* tts_to_file raises, or leaves no file or an empty one
       \/ /\ events' = Append(events, Failed)
          /\ Return(Raise("TTSException", <<>>))
    /\ UNCHANGED <<prog, lib, avail, arg, loc, lookups, calls, ntemp, pl, dirs, cli, app,
                   batch>>

----------------------------------------------------------------------------
(* engines/pipertts.py *)

\* get_voice_path without the fallback to the English voice
piper_voice_name_strict(language) ==
    CASE language = <<"e", "n">> -> "en_US-lessac-medium"
      [] language = <<"r", "u">> -> "ru_RU-ruslan-medium"
      [] language = <<"e", "s">> -> "es_ES-davefx-medium"
      [] language = <<"d", "e">> -> "de_DE-thorsten-medium"
      [] language = <<"f", "r">> -> "fr_FR-siwis-medium"
      [] language = <<"i", "t">> -> "it_IT-riccardo-medium"
      [] language = <<"u", "k">> -> "uk_UA-ukrainian_tts-medium"
      [] language = <<"z", "h">> -> "zh_CN-huayan-medium"
      [] OTHER -> ""

\* voice_models.get(language, voice_models['en']) of get_voice_path
piper_voice_name(language) ==
    CASE language = <<"e", "n">> -> "en_US-lessac-medium"
      [] language = <<"r", "u">> -> "ru_RU-ruslan-medium"
      [] language = <<"e", "s">> -> "es_ES-davefx-medium"
      [] language = <<"d", "e">> -> "de_DE-thorsten-medium"
      [] language = <<"f", "r">> -> "fr_FR-siwis-medium"
      [] language = <<"i", "t">> -> "it_IT-riccardo-medium"
      [] language = <<"u", "k">> -> "uk_UA-ukrainian_tts-medium"
      [] language = <<"z", "h">> -> "zh_CN-huayan-medium"
      [] OTHER -> "en_US-lessac-medium"

\* voice_dirs of get_voice_path, in the order they are searched
VoiceDirs == <<"project", "home", "system", "cwd">>

\* get_voice_path: the first directory of voices (those that hold the
\* .onnx file of the voice) in the search order, else the project directory
piper_get_voice_path(language, voices) ==
    LET found == {i \in 1..Len(VoiceDirs) : VoiceDirs[i] \in voices}
    IN  [dir |-> IF found = {} THEN "project"
                 ELSE VoiceDirs[CHOOSE i \in found : \A j \in found : i <= j],
         name |-> piper_voice_name(language)]

\* generate of pipertts.py
PiperGenerate ==
    /\ pc = "piper_generate"
    /\ IF ~arg.available
       THEN /\ Return(Raise("EngineNotAvailableError", <<>>))
            /\ UNCHANGED <<loc, events>>
       ELSE LET voice_path == piper_get_voice_path(arg.language, arg.voices)
            IN  /\ loc' = [loc EXCEPT !.model = voice_path.name,
                                      !.voice_dir = voice_path.dir]
                /\ IF voice_path.dir \notin arg.voices
                   THEN \* PiperVoice.load: FileNotFoundError, answered with
                        \* get_download_instructions
                        /\ events' = Append(events, Ev("model_not_found", <<>>, NoBytes))
                        /\ Return(Raise("TTSException", <<>>))
                   ELSE \/ /\ events' = Append(events, Failed)
                           /\ Return(Raise("TTSException", <<>>))
                        \/ \E data \in AudioData \ {NoBytes} :
                              /\ events' = Append(events, Ev("bytes", <<>>, data))
                              /\ Return(Ok(data))
    /\ UNCHANGED <<prog, lib, avail, arg, lookups, calls, fs, clock, ntemp, pl, dirs,
                   cli, app, batch>>

----------------------------------------------------------------------------
(* engines/silerotts.py *)

\* get_model_info: (model_id, speaker, sample_rate)
silero_get_model_info(language) ==
    CASE language = <<"r", "u">> -> <<"v3_1_ru", "aidar", 48000>>
      [] language = <<"e", "n">> -> <<"v3_en", "en_0", 48000>>
      [] language = <<"d", "e">> -> <<"v3_de", "bernd_ungerer", 48000>>
      [] language = <<"e", "s">> -> <<"v3_es", "es_0", 48000>>
      [] language = <<"f", "r">> -> <<"v3_fr", "fr_0", 48000>>
      [] language = <<"u", "a">> -> <<"v3_ua", "mykyta", 48000>>
      [] language = <<"u", "k">> -> <<"v3_ua", "mykyta", 48000>>
      [] OTHER -> <<"v3_en", "en_0", 48000>>

\* the languages generate hands to torch.hub.load as they are
SileroHubLanguages ==
    {<<"r", "u">>, <<"e", "n">>, <<"d", "e">>, <<"e", "s">>, <<"f", "r">>, <<"u", "a">>}

\* the language argument of torch.hub.load in generate
silero_hub_language(language) ==
    IF language \in SileroHubLanguages THEN language ELSE <<"e", "n">>

\* generate of silerotts.py: torch.hub.load(language=..., speaker=model_id),
\* model.apply_tts(speaker=speaker), torchaudio.save
SileroGenerate ==
    /\ pc = "silero_generate"
    /\ IF ~arg.available
       THEN /\ Return(Raise("EngineNotAvailableError", <<>>))
            /\ UNCHANGED <<loc, events>>
       ELSE LET info == silero_get_model_info(arg.language)
            IN  /\ loc' = [loc EXCEPT !.model = info[1], !.speaker = info[2],
                                      !.hub_language = silero_hub_language(arg.language)]
                /\ \/ \E e \in {"TTSException", "EngineNotAvailableError"} :
                         /\ events' = Append(events, Failed)
                         /\ Return(Raise(e, <<>>))
                   \/ \E data \in AudioData \ {NoBytes} :
                         /\ events' = Append(events, Ev("bytes", <<>>, data))
                         /\ Return(Ok(data))
    /\ UNCHANGED <<prog, lib, avail, arg, lookups, calls, fs, clock, ntemp, pl, dirs,
                   cli, app, batch>>

----------------------------------------------------------------------------
(* batch_tts (tts_lib.py, and tools.py for lib = "api") *)

\* the most texts one batch holds
MaxBatch == 2

\* batch_tts is not running
NoBatch ==
    [texts |-> <<>>, islist |-> TRUE, engine |-> "", language |-> NotALang,
     output_dir |-> <<>>, i |-> 0, piped |-> <<>>, generated_files |-> <<>>,
     failed |-> -1]

\* the check of the argument, the directory, the pipeline
BatchStart ==
    /\ pc = "batch_tts"
    /\ IF ~batch.islist \/ batch.texts = <<>>
       THEN Return(Raise("ValidationError", <<>>)) /\ UNCHANGED dirs
       ELSE /\ dirs' = ensure_audio_directory(dirs, batch.output_dir)
            /\ pc' = "batch_item"
            /\ UNCHANGED <<ret, stack>>
    /\ UNCHANGED <<prog, lib, avail, arg, loc, lookups, calls, fs, clock, ntemp, events,
                   pl, cli, app, batch>>

\* the head of the loop: the next text goes to pipeline(text, "file",
\* filename), that is to text_to_speech_file; after the last one the list
\* of names is returned
BatchItem ==
    /\ pc = "batch_item"
    /\ IF batch.i = Len(batch.texts)
       THEN /\ Return(Ok(batch.generated_files))
            /\ UNCHANGED <<arg, loc, batch>>
       ELSE /\ arg' = [fmt |-> "file", text |-> batch.texts[batch.i + 1],
                       engine |-> batch.engine, language |-> batch.language,
                       filename |-> File(Join(batch.output_dir,
                                              Timestamp(clock) \o EXT_MP3))]
            /\ loc' = NoLoc
            /\ batch' = [batch EXCEPT !.piped = Append(@, batch.texts[batch.i + 1])]
            /\ stack' = <<"batch_result">> \o stack
            /\ pc' = "validate_text"
            /\ ret' = ret
    /\ UNCHANGED <<prog, lib, avail, lookups, calls, fs, clock, ntemp, events, pl, dirs,
                   cli, app>>

\* BatchResult going on to the next text when one fails
BatchResult_continues ==
    /\ pc = "batch_result"
    /\ batch' = IF ret.err # "none" THEN [batch EXCEPT !.i = @ + 1]
                ELSE [batch EXCEPT !.generated_files = Append(@, ret.val), !.i = @ + 1]
    /\ pc' = "batch_item"
    /\ UNCHANGED <<prog, lib, avail, arg, loc, lookups, calls, fs, clock, ntemp, events,
                   pl, dirs, cli, app, ret, stack>>

\* the rest of the loop body: the name is kept, or the except clause
\* raises TTSException with the index of the item
BatchResult ==
    /\ pc = "batch_result"
    /\ IF ret.err # "none"
       THEN /\ batch' = [batch EXCEPT !.failed = batch.i]
            /\ Return(Raise("TTSException", <<>>))
       ELSE /\ batch' = [batch EXCEPT !.generated_files = Append(@, ret.val),
                                      !.i = @ + 1]
            /\ pc' = "batch_item"
            /\ UNCHANGED <<ret, stack>>
    /\ UNCHANGED <<prog, lib, avail, arg, loc, lookups, calls, fs, clock, ntemp, events,
                   pl, dirs, cli, app>>

----------------------------------------------------------------------------
(* The runs *)

\* the texts given to the library and the command line tool
SampleTexts ==
    {t \in Texts : t.str => /\ Len(t.runs) <= 2
                            /\ \A i \in 1..Len(t.runs) :
                                  /\ t.runs[i].ch # "\n"
                                  /\ t.runs[i].n # MAX_TEXT_LEN - 1}

SampleLanguages ==
    {l \in Languages :
        l.str => l.s \in {<<>>, <<"e">>, <<"e", "n">>, <<"E", "N">>, <<"N", "e">>,
                          <<"e", "n", "e">>}}

NoArg ==
    [fmt |-> "file", text |-> NotAText, engine |-> "", language |-> NotALang,
     filename |-> NoFile]

\* the texts one batch is given
BatchTexts ==
    {StrText(<<[ch |-> "a", n |-> 1]>>), StrText(<<[ch |-> " ", n |-> 1]>>)}

\* one call of batch_tts of either library; the texts argument is a list
\* of at most MaxBatch texts, or something that is not a list
InitBatch ==
    /\ prog = "batch"
    /\ lib \in {"tts_lib", "api"}
    /\ avail.pygame
    /\ fs = EmptyFs
    /\ pl = NoSource
    /\ arg = NoArg
    /\ \E ts \in UNION {[1..m -> BatchTexts] : m \in 0..MaxBatch},
          l \in BOOLEAN, e \in {"gtts", "pyttsx3", "coqui"} :
          /\ ~l => ts = <<>>
          /\ batch = [NoBatch EXCEPT !.texts = ts, !.islist = l, !.engine = e,
                                     !.language = EN, !.output_dir = AUDIO]
    /\ pc = "batch_tts"
    /\ dirs = {}
    /\ cli = NoCli
    /\ app = NoApp

\* the audio file that play_audio is asked to play
PLAYABLE == <<"o">> \o EXT_MP3

PlaySources ==
    {PathSource(PLAYABLE), PathSource(<<"n">> \o EXT_MP3), OtherSource}
        \cup {BytesSource(d) : d \in AudioData}

\* one call of play_audio of either library
InitPlay ==
    /\ prog = "play"
    /\ lib \in {"tts_lib", "api"}
    /\ fs = WriteFile(EmptyFs, PLAYABLE, <<1, 2, 3>>)
    /\ pl \in PlaySources
    /\ arg = NoArg
    /\ pc = "play_audio"
    /\ dirs = {}
    /\ cli = NoCli
    /\ app = NoApp
    /\ batch = NoBatch

\* one call of generate(text, config) of coquitts.py
InitCoqui ==
    /\ prog = "coqui"
    /\ lib = "api"
    /\ avail.pygame /\ avail.gtts /\ avail.pyttsx3
    /\ fs = EmptyFs
    /\ pl = NoSource
    /\ arg \in [fmt : {"coqui"}, text : {StrText(<<[ch |-> "a", n |-> 1]>>)},
                language : {<<"e", "n">>, <<"u", "k">>, <<"x", "x">>},
                available : BOOLEAN,
                models : {"missing", "nopth", "ok"}]
    /\ pc = "coqui_generate"
    /\ dirs = {}
    /\ cli = NoCli
    /\ app = NoApp
    /\ batch = NoBatch

\* the seconds at which generate_timestamp_filename is tried
LastSecond == 10 * MaxClock + 9

\* one call of generate_timestamp_filename(prefix, extension)
InitTimestamp ==
    /\ prog = "timestamp"
    /\ lib \in {"tts_lib", "api"}
    /\ fs = EmptyFs
    /\ pl = NoSource
    /\ arg \in [fmt : {"timestamp"}, prefix : {<<>>, <<"p">>, <<"t", "_", "o">>},
                extension : {MP3, WAV}]
    /\ pc = "generate_timestamp_filename"
    /\ dirs = {}
    /\ cli = NoCli
    /\ app = NoApp
    /\ batch = NoBatch

\* the call, at whatever second datetime.now() gives
GenerateTimestampCall ==
    /\ pc = "generate_timestamp_filename"
    /\ \E now \in 0..LastSecond :
          /\ clock' = now
          /\ Return(Ok(generate_timestamp_filename(arg.prefix, arg.extension, now)))
    /\ UNCHANGED <<prog, lib, avail, arg, loc, lookups, calls, fs, ntemp, events, pl,
                   dirs, cli, app, batch>>

InitCommon ==
    /\ avail \in Availabilities
    /\ stack = <<"done">>
    /\ loc = NoLoc
    /\ lookups = 0
    /\ calls = <<>>
    /\ ret = [err |-> "pending", val |-> <<>>]
    /\ clock = 0
    /\ ntemp = 0
    /\ events = <<>>

\* one call of text_to_speech_file, _bytes or _bytesio of either library
InitLib ==
    /\ fs = EmptyFs
    /\ pl = NoSource
    /\ prog \in {"file", "bytes", "bytesio"}
    /\ lib \in {"tts_lib", "api"}
    /\ avail.pygame
    /\ arg \in [fmt : {prog}, text : SampleTexts, engine : EngineIds,
                language : SampleLanguages,
                filename : IF prog = "file" THEN {NoFile} \cup {File(f) : f \in FileNames}
                           ELSE {NoFile}]
    /\ pc = IF prog = "bytesio" THEN "bytesio_call" ELSE "validate_text"
    /\ dirs = {}
    /\ cli = NoCli
    /\ app = NoApp
    /\ batch = NoBatch

CliInputs ==
    { [src |-> "text", text |-> StrText(<<[ch |-> "a", n |-> 1]>>), readable |-> FALSE],
      [src |-> "text", text |-> StrText(<<[ch |-> " ", n |-> 1]>>), readable |-> FALSE],
      [src |-> "text", text |-> StrText(<<>>), readable |-> FALSE],
      [src |-> "file", text |-> StrText(<<[ch |-> "a", n |-> 1], [ch |-> "\n", n |-> 1]>>),
       readable |-> TRUE],
      [src |-> "file", text |-> StrText(<<>>), readable |-> FALSE] }

CliFiles ==
    { NoFile, File(<<>>), File(<<"o">> \o EXT_MP3), File(<<"d">>), File(<<"x", SEP>>),
      File(<<"x", SEP, "o">>) }

\* the directories that exist when cli.py starts
CliDirs == {<<"d">>}

\* the .env files tried: none, one that sets everything, one that sets an
\* engine the library does not have
DotEnvs ==
    { NoDotEnv,
      [tts_engine |-> "pyttsx3", tts_language |-> Option(<<"N", "e">>),
       default_output_format |-> "bytesio", audio_directory |-> Option(<<"d">>)],
      [NoDotEnv EXCEPT !.tts_engine = "coqui", !.default_output_format = "bytesio"] }

\* --language as typed
LanguageOptions == {NoOption, Option(<<>>), Option(<<"e", "n">>)}

\* one run of cli.py
InitCli ==
    /\ fs = EmptyFs
    /\ pl = NoSource
    /\ prog = "cli"
    /\ lib = "tts_lib"
    /\ \E a \in [input : CliInputs, file : CliFiles, play : BOOLEAN,
                 format : {NONE, "file", "bytesio"}, engine : {NONE, "pyttsx3", "gtts"},
                 language : {ArgLanguage(o) : o \in LanguageOptions},
                 audio_dir : {<<>>}, verbose : BOOLEAN, quiet : BOOLEAN],
          o \in LanguageOptions,
          d \in DotEnvs :
          /\ a.verbose = a.quiet
          /\ a.language = ArgLanguage(o)
          /\ cli = [NoCli EXCEPT !.args = a, !.env = load_env_config(d),
                                 !.argv_language = o, !.dotenv = d]
    /\ arg = NoArg
    /\ pc = "cli_main"
    /\ dirs = CliDirs
    /\ app = NoApp
    /\ batch = NoBatch

\* one session of app.py
InitApp ==
    /\ fs = EmptyFs
    /\ pl = NoSource
    /\ prog = "app"
    /\ lib = "tts_lib"
    /\ arg = NoArg
    /\ pc = "app_read"
    /\ dirs = {AUDIO}
    /\ cli = NoCli
    /\ app = NoApp
    /\ batch = NoBatch

Init == InitCommon /\ (InitLib \/ InitCli \/ InitApp \/ InitPlay \/ InitTimestamp
                       \/ InitBatch \/ InitCoqui)

\* the validators alone, on every text and language code of the bounds
InitValidate ==
    /\ InitCommon
    /\ fs = EmptyFs
    /\ pl = NoSource
    /\ prog = "validate"
    /\ lib \in {"tts_lib", "api"}
    /\ avail = [pyttsx3 |-> TRUE, gtts |-> TRUE, pygame |-> TRUE]
    /\ \/ arg \in [fmt : {"text"}, text : Texts, engine : {"gtts"}, language : {EN},
                    filename : {NoFile}]
       \/ arg \in [fmt : {"language"}, text : {NotAText}, engine : {"gtts"},
                    language : Languages, filename : {NoFile}]
    /\ pc = "validate"
    /\ dirs = {}
    /\ cli = NoCli
    /\ app = NoApp
    /\ batch = NoBatch

ValidateTextCall ==
    /\ pc = "validate" /\ arg.fmt = "text"
    /\ ret' = validate_text(arg.text)
    /\ pc' = "validated_text"
    /\ UNCHANGED <<prog, lib, avail, stack, arg, loc, lookups, calls, fs, clock, ntemp,
                   events, pl, dirs, cli, app, batch>>

ValidateLanguageCall ==
    /\ pc = "validate" /\ arg.fmt = "language"
    /\ ret' = validate_language(arg.language)
    /\ pc' = "validated_language"
    /\ UNCHANGED <<prog, lib, avail, stack, arg, loc, lookups, calls, fs, clock, ntemp,
                   events, pl, dirs, cli, app, batch>>

NextValidate == ValidateTextCall \/ ValidateLanguageCall

SpecValidate == InitValidate /\ [][NextValidate]_vars

\* the longest file name the extension rule is tried on
MaxPathLen == 5

PathChars == {"a", "w", "v", "m", "p", "3", DOT, SEP}

\* every file name of at most MaxPathLen characters
PathNames == UNION {[1..m -> PathChars] : m \in 0..MaxPathLen}

\* the extension rule of text_to_speech_file alone, on every file name of
\* the bounds
InitNormalise ==
    /\ InitCommon
    /\ fs = EmptyFs
    /\ pl = NoSource
    /\ prog = "normalise"
    /\ lib = "api"
    /\ avail = [pyttsx3 |-> TRUE, gtts |-> TRUE, pygame |-> TRUE]
    /\ arg \in [fmt : {"file"}, text : {StrText(<<[ch |-> "a", n |-> 1]>>)},
                engine : {"gtts", "pyttsx3"}, language : {EN},
                filename : {File(f) : f \in PathNames}]
    /\ pc = "normalise"
    /\ dirs = {}
    /\ cli = NoCli
    /\ app = NoApp
    /\ batch = NoBatch

NormaliseCall ==
    /\ pc = "normalise"
    /\ ret' = Ok(NormaliseFilename(arg.filename, arg.engine, clock))
    /\ pc' = "normalised"
    /\ UNCHANGED <<prog, lib, avail, stack, arg, loc, lookups, calls, fs, clock, ntemp,
                   events, pl, dirs, cli, app, batch>>

NextNormalise == NormaliseCall

SpecNormalise == InitNormalise /\ [][NextNormalise]_vars

Next ==
    \/ TtsValidateText
    \/ TtsValidateEngine
    \/ TtsValidateLanguage
    \/ TtsGetEngineFunction
    \/ GttsToFile
    \/ GttsToBytes
    \/ Pyttsx3Init
    \/ Pyttsx3Run
    \/ Pyttsx3FinishFile
    \/ Pyttsx3FinishBytes
    \/ BytesioCall
    \/ BytesioWrap
    \/ PlayAudioFile
    \/ PlayAudioBytes
    \/ PlayBytesTry
    \/ PlayAudioOther
    \/ CliMain
    \/ CliSave
    \/ CliSaved
    \/ CliPlayed
    \/ CliTemp
    \/ CliTempMade
    \/ CliTempPlayed
    \/ AppRead
    \/ AppProcessed
    \/ AppPlayed
    \/ GenerateTimestampCall
    \/ BatchStart
    \/ BatchItem
    \/ BatchResult
    \/ CoquiGenerate
    \/ CoquiSynth

Spec == Init /\ [][Next]_vars

----------------------------------------------------------------------------
(* The neural adapters, called directly *)

Letters ==
    {"a", "b", "c", "d", "e", "f", "g", "h", "i", "j", "k", "l", "m", "n", "o", "p",
     "q", "r", "s", "t", "u", "v", "w", "x", "y", "z"}

\* every 2-letter language code
TwoLetterCodes == {<<a, b>> : a \in Letters, b \in Letters}

\* one call of generate(text, config) of coquitts.py, pipertts.py or
\* silerotts.py
InitEngines ==
    /\ InitCommon
    /\ avail.pygame /\ avail.gtts /\ avail.pyttsx3
    /\ lib = "api"
    /\ fs = EmptyFs
    /\ pl = NoSource
    /\ dirs = {}
    /\ cli = NoCli
    /\ app = NoApp
    /\ batch = NoBatch
    /\ prog \in {"coqui", "piper", "silero"}
    /\ \E text \in {StrText(<<[ch |-> "a", n |-> 1]>>)}, language \in TwoLetterCodes,
          available \in BOOLEAN :
          \/ /\ prog = "coqui"
             /\ pc = "coqui_generate"
             /\ \E models \in {"missing", "nopth", "ok"} :
                   arg = [fmt |-> "coqui", text |-> text, language |-> language,
                          available |-> available, models |-> models]
          \/ /\ prog = "piper"
             /\ pc = "piper_generate"
             /\ \E voices \in SUBSET {"project", "home", "system", "cwd"} :
                   arg = [fmt |-> "piper", text |-> text, language |-> language,
                          available |-> available, voices |-> voices]
          \/ /\ prog = "silero"
             /\ pc = "silero_generate"
             /\ arg = [fmt |-> "silero", text |-> text, language |-> language,
                       available |-> available]

NextEngines ==
    \/ CoquiGenerate
    \/ CoquiSynth
    \/ PiperGenerate
    \/ SileroGenerate

SpecEngines == InitEngines /\ [][NextEngines]_vars

----------------------------------------------------------------------------
(* KeyboardInterrupt *)

\* the statement about to run is the first one after a temporary file was
\* made: the interrupt may come before the try statement is entered
AtTryEntry ==
    \/ pc \in {"pyttsx3_run", "play_bytes", "coqui_synth"}
    \/ pc = "validate_text" /\ stack # <<>> /\ Head(stack) = "cli_temp_made"

\* the frames the exception goes through, innermost first
Frames == <<pc>> \o stack

\* the disk after the clauses of the adapter or playback function the
\* interrupt goes through: finally clauses run, "except Exception" clauses
\* do not, since KeyboardInterrupt is not an Exception
InterruptInner(inside) ==
    IF ~inside THEN fs
    ELSE IF pc \in {"pyttsx3_run", "pyttsx3_finish"}
    THEN IF arg.fmt = "bytes" THEN Pyttsx3Cleanup(fs) ELSE fs
    ELSE IF pc = "play_bytes" THEN PlayBytesCleanup(fs)
    ELSE IF pc = "coqui_synth" THEN CoquiCleanup(fs)
    ELSE fs

\* the finally clause of the play-only mode of cli.py, if the interrupt
\* goes through it
InterruptCli(f, inside) ==
    IF \E i \in 1..Len(Frames) : Frames[i] \in {"cli_temp_made", "cli_temp_played"}
    THEN IF pc = "validate_text" /\ ~inside THEN f ELSE CliTempCleanup(f)
    ELSE f

\* KeyboardInterrupt is raised in the statement about to run and goes up:
\* main of cli.py returns 1, the loop of app.py breaks, a library call
\* lets it out to its caller
Interrupt ==
    /\ pc # "done"
    /\ \E inside \in (IF AtTryEntry THEN BOOLEAN ELSE {TRUE}) :
          /\ fs' = InterruptCli(InterruptInner(inside), inside)
          /\ events' = Append(events,
                 Ev(IF inside THEN "interrupt" ELSE "interrupt_early", <<>>, NoBytes))
    /\ pc' = "done"
    /\ stack' = <<>>
    /\ IF prog = "cli"
       THEN cli' = [cli EXCEPT !.exit = "1"] /\ UNCHANGED <<app, ret>>
       ELSE IF prog = "app"
       THEN app' = [app EXCEPT !.ended = "interrupt"] /\ UNCHANGED <<cli, ret>>
       ELSE ret' = Raise("KeyboardInterrupt", <<>>) /\ UNCHANGED <<cli, app>>
    /\ UNCHANGED <<prog, lib, avail, arg, loc, lookups, calls, clock, ntemp, pl, dirs,
                   batch>>

NextInterrupt == Next \/ Interrupt

SpecInterrupt == Init /\ [][NextInterrupt]_vars

----------------------------------------------------------------------------
(* Properties *)

InLib == prog \in {"file", "bytes", "bytesio"}

\* the library call has returned or raised
Returned == pc \in {"done", "bytesio_wrap"}

\* the statements of text_to_speech_* after validate_language
PastLanguage == {"get_engine_function", "invoke", "pyttsx3_run", "pyttsx3_finish"}

\* the statements after validate_engine
PastEngine == {"validate_language"} \cup PastLanguage

\* empty, or whitespace only
Blank(t) == t.str /\ \A i \in 1..Len(t.runs) : t.runs[i].ch \in Whitespace

\* r is rs without its leading and trailing whitespace
IsTrimOf(r, rs) ==
    \E i \in 1..(Len(rs) + 1), j \in 0..Len(rs) :
        /\ r = SubSeq(rs, i, j)
        /\ \A k \in 1..(i - 1) : rs[k].ch \in Whitespace
        /\ \A k \in (j + 1)..Len(rs) : rs[k].ch \in Whitespace
        /\ r # <<>> => (r[1].ch \notin Whitespace /\ r[Len(r)].ch \notin Whitespace)

TrimOf(rs) ==
    CHOOSE r \in {SubSeq(rs, i, j) : i \in 1..(Len(rs) + 1), j \in 0..Len(rs)} :
        IsTrimOf(r, rs)

\* a str of 1 to 5000 characters once trimmed
IsValidText(t) == t.str /\ RunsLen(TrimOf(t.runs)) \in 1..5000

\* v is s in lower case
IsLowerOf(v, s) ==
    /\ Len(v) = Len(s)
    /\ \A k \in 1..Len(s) :
          /\ v[k] \notin UpperCase
          /\ s[k] \notin UpperCase => v[k] = s[k]
          /\ s[k] = "E" => v[k] = "e"
          /\ s[k] = "N" => v[k] = "n"
          /\ s[k] = "Q" => v[k] = "q"

HasEvent(kind) == \E i \in DOMAIN events : events[i].ev = kind

\* C1: an empty or whitespace-only text makes text_to_speech_file and
\* text_to_speech_bytes fail with ValidationError, whatever the engine and
\* the language, and no engine function is looked up or invoked; no engine
\* function is ever handed a blank text
C1_BlankTextRejected ==
    /\ \A i \in DOMAIN calls : ~Blank(calls[i].text)
    /\ (InLib /\ Blank(arg.text)) =>
          /\ calls = <<>>
          /\ lookups = 0
          /\ pc \in {"validate_text", "bytesio_call", "bytesio_wrap", "done"}
          /\ Returned => ret.err = "ValidationError"

C1_Witness ==
    /\ prog = "bytes" /\ pc = "done"
    /\ Blank(arg.text) /\ arg.text.runs # <<>>
    /\ arg.engine = "gtts" /\ avail.gtts /\ arg.language = EN
    /\ ret.err = "ValidationError"

\* C2: with a valid text, an engine identifier other than 'pyttsx3' and
\* 'gtts' makes text_to_speech_file and text_to_speech_bytes fail with
\* ValidationError before get_engine_function is called and before any
\* engine function is invoked
C2_UnknownEngineRejected ==
    (InLib /\ IsValidText(arg.text) /\ arg.engine \notin {"pyttsx3", "gtts"}) =>
        /\ lookups = 0
        /\ calls = <<>>
        /\ pc \notin PastEngine
        /\ Returned => ret.err = "ValidationError"

C2_Witness ==
    /\ prog = "file" /\ pc = "done"
    /\ IsValidText(arg.text) /\ arg.engine = "coqui" /\ arg.language = EN
    /\ ret.err = "ValidationError"

Unavailable(engine) == engine \in {"pyttsx3", "gtts"} /\ ~avail[engine]

\* C3 as stated: for a registered engine whose availability flag is false
\* the call fails with EngineNotAvailableError and the engine function is
\* never called (here on str texts and 2-character language codes only)
C3_Original ==
    (InLib /\ Unavailable(arg.engine) /\ arg.text.str
        /\ arg.language.str /\ Len(arg.language.s) = 2) =>
        /\ calls = <<>>
        /\ Returned => ret.err = "EngineNotAvailableError"

\* C3, amended: for a registered engine whose availability flag is false
\* the engine function is never called, and with a valid text the call
\* fails with EngineNotAvailableError (whatever the language)
C3_UnavailableEngineRejected ==
    (InLib /\ Unavailable(arg.engine)) =>
        /\ calls = <<>>
        /\ lookups = 0
        /\ pc \notin PastEngine
        /\ (Returned /\ IsValidText(arg.text)) => ret.err = "EngineNotAvailableError"

C3_Witness ==
    /\ prog = "file" /\ pc = "done"
    /\ IsValidText(arg.text) /\ arg.engine = "pyttsx3" /\ ~avail.pyttsx3
    /\ ~arg.language.str
    /\ ret.err = "EngineNotAvailableError"

\* C4: validate_text accepts exactly the strings whose trimmed form has 1
\* to 5000 characters, returns the trimmed text and nothing else, and fails
\* with ValidationError on everything else; the length is the trimmed one
C4_ValidateTextContract ==
    (prog = "validate" /\ pc = "validated_text") =>
        IF IsValidText(arg.text)
        THEN /\ ret.err = "none"
             /\ ret.val.str
             /\ IsTrimOf(ret.val.runs, arg.text.runs)
        ELSE ret.err = "ValidationError"

C4_Witness ==
    /\ prog = "validate" /\ pc = "validated_text"
    /\ RunsLen(arg.text.runs) > 5000
    /\ ret.err = "none"
    /\ RunsLen(ret.val.runs) = 5000

\* C5: validate_language fails with ValidationError on every code that is
\* not 2 characters long; a 2-character code comes back in lower case, and
\* that lower-case code is the language of the config the engine function
\* receives
C5_LanguageLowercased ==
    /\ \A i \in DOMAIN calls :
          /\ Len(calls[i].language) = 2
          /\ \A k \in 1..2 : calls[i].language[k] \notin UpperCase
    /\ pc \in PastLanguage =>
          /\ arg.language.str /\ Len(arg.language.s) = 2
          /\ loc.language.str
          /\ IsLowerOf(loc.language.s, arg.language.s)
          /\ loc.config.language = loc.language.s
    /\ (InLib /\ calls # <<>>) => IsLowerOf(calls[1].language, arg.language.s)
    /\ (InLib /\ Returned /\ IsValidText(arg.text) /\ arg.engine \in {"pyttsx3", "gtts"}
          /\ ~Unavailable(arg.engine)
          /\ (~arg.language.str \/ Len(arg.language.s) # 2)) =>
          /\ ret.err = "ValidationError"
          /\ calls = <<>>

C5_Witness ==
    /\ prog = "bytes" /\ pc = "done"
    /\ arg.language = StrLang(<<"N", "e">>)
    /\ Len(calls) = 1
    /\ calls[1].language = <<"n", "e">>

\* C6: text_to_speech_bytes returns the byte string the engine's bytes
\* function produced, unchanged, and text_to_speech_bytesio a BytesIO
\* holding those bytes
C6_BytesUnmodified ==
    (prog \in {"bytes", "bytesio"} /\ pc = "done" /\ ret.err = "none") =>
        /\ Len(calls) = 1 /\ calls[1].fn = "bytes" /\ calls[1].engine = arg.engine
        /\ Len(events) = 1 /\ events[1].ev = "bytes"
        /\ IF prog = "bytes" THEN ret.val = events[1].data
           ELSE ret.val.bytesio /\ ret.val.buf = events[1].data

C6_Witness ==
    /\ prog = "bytesio" /\ pc = "done" /\ ret.err = "none"
    /\ arg.engine = "gtts"
    /\ events = <<Ev("bytes", <<>>, <<1, 2, 3>>)>>
    /\ ret.val.buf = <<1, 2, 3>>

\* a file save and playback are both asked for
WantsBoth == (prog = "cli" /\ cli.args.file.given /\ cli.args.play) \/ prog = "app"

\* C7: when a file save and playback are both asked for (cli.py with --file
\* and --play, every text of app.py), playback is attempted only after the
\* file write is over, and with the path of the file just written
C7_FileBeforePlay ==
    WantsBoth =>
        /\ \A i \in DOMAIN events : events[i].ev = "play_call" =>
              /\ i > 1
              /\ events[i - 1].ev = "write"
              /\ events[i - 1].path = events[i].path
        /\ \A i \in DOMAIN events : events[i].ev = "played" =>
              /\ i > 2
              /\ events[i - 2].ev = "write"
              /\ events[i - 2].path = events[i].path
              /\ events[i - 2].data = events[i].data
        /\ pc = "play_audio" =>
              /\ events # <<>>
              /\ events[Len(events)].ev = "write"
              /\ events[Len(events)].path = pl.path
              /\ Exists(fs, pl.path)

C7_Witness ==
    /\ prog = "cli" /\ cli.args.file.given /\ cli.args.play /\ pc = "done"
    /\ \E i \in DOMAIN events :
          /\ events[i].ev = "played"
          /\ events[i].path # cli.output_filename.path
          /\ events[i].data = <<1, 2, 3>>

\* C8 as stated: with --file and --play a failing file save does not prevent
\* playback from being attempted, and a failing playback does not prevent
\* the file save
C8_SinkFailureIsolated ==
    (prog = "cli" /\ cli.args.file.given /\ cli.args.play /\ pc = "done") =>
        /\ HasEvent("write_failed") => HasEvent("play_call")
        /\ (HasEvent("play_call") /\ ret.err # "none") => HasEvent("write")

\* C9: with the playback backend unavailable and both a file save and
\* playback asked for, the file is written with the synthesized audio and
\* stays on disk; only the playback step fails
C9_FileSurvivesPlaybackOutage ==
    (~avail.pygame /\ WantsBoth) =>
        /\ \A i \in DOMAIN events : events[i].ev = "write" => Exists(fs, events[i].path)
        /\ (events # <<>> /\ events[Len(events)].ev = "play_call") =>
              LET n == Len(events)
              IN  /\ n >= 2
                  /\ events[n - 1].ev = "write"
                  /\ events[n - 1].path = events[n].path
                  /\ Exists(fs, events[n].path)
                  /\ fs[events[n].path] = events[n - 1].data
                  /\ ret.err = "EngineNotAvailableError"
                  /\ (prog = "cli" /\ pc = "done") => cli.exit = "1"
        /\ ~HasEvent("played")

C9_Witness ==
    /\ ~avail.pygame
    /\ prog = "cli" /\ cli.args.file.given /\ cli.args.play /\ pc = "done"
    /\ cli.exit = "1"
    /\ Len(events) = 2
    /\ events[1] = Ev("write", cli.filename, <<1, 2, 3>>)
    /\ events[2].ev = "play_call"
    /\ fs[cli.filename] = <<1, 2, 3>>

\* C10: cli.py with neither --file nor --play plays only:
\* determine_output_filename gives None, determine_playback_setting gives
\* True, what was synthesized is played from a temporary file and no file
\* is left when main returns; with --file and without --play nothing is
\* played
C10_DefaultIsPlayOnly ==
    prog = "cli" =>
        /\ (~cli.args.file.given /\ cli.text.str) =>
              /\ cli.output_filename = NoFile
              /\ cli.should_play
              /\ pc \notin {"cli_save", "cli_saved", "cli_played", "cli_bytesio",
                            "cli_fall_through"}
        /\ (~cli.args.file.given /\ pc = "done") =>
              /\ DOMAIN fs = {}
              /\ \A i \in DOMAIN events : events[i].ev = "write" =>
                    /\ i < Len(events)
                    /\ events[i + 1] = Ev("play_call", events[i].path, NoBytes)
                    /\ events[i].path = cli.temp_filename
              /\ \A i \in DOMAIN events : events[i].ev = "played" =>
                    events[i].data = events[1].data
              /\ cli.exit = "0" => HasEvent("played")
        /\ (cli.args.file.given /\ ~cli.args.play) =>
              /\ ~HasEvent("play_call")
              /\ pc # "play_audio"

C10_Witness ==
    /\ prog = "cli" /\ ~cli.args.file.given /\ ~cli.args.play /\ pc = "done"
    /\ cli.exit = "0"
    /\ cli.engine = "pyttsx3"
    /\ events[Len(events)] = Ev("played", cli.temp_filename, <<1, 2, 3>>)
    /\ DOMAIN fs = {}

\* a file name made of a timestamp of this run and the extension e
IsTimestampName(n, e) ==
    \E t \in 0..clock : n = Timestamp(t) \o <<DOT>> \o e

\* p is inside the directory d
InDirectory(p, d, e) ==
    \E n \in {SubSeq(p, i, Len(p)) : i \in 1..Len(p)} :
        /\ IsTimestampName(n, e)
        /\ p \in {d \o n, d \o <<SEP>> \o n}
        /\ (d \o <<SEP>> \o n = p) => ~EndsWith(d, <<SEP>>)

\* q is p up to its last dot, or p when p has no dot
IsStem(q, p) ==
    \/ q = p /\ \A i \in 1..Len(p) : p[i] # DOT
    \/ \E i \in 1..Len(p) :
          /\ p[i] = DOT
          /\ \A j \in (i + 1)..Len(p) : p[j] # DOT
          /\ q = SubSeq(p, 1, i - 1)

\* the extension of the files an engine writes
WrittenExt(engine) == IF engine = "pyttsx3" THEN WAV ELSE MP3

\* the target of --file names a directory
IsDirTarget(t) == EndsWith(t, <<SEP>>) \/ t \in CliDirs

\* the directory --file without a value writes to
DefaultDir == IF cli.args.audio_dir # <<>> THEN cli.args.audio_dir
              ELSE cli.env.audio_directory

\* the first two path shapes of C11, and the path handed back
C11_Shapes(path) ==
    LET t == cli.args.file.path
        e == WrittenExt(cli.engine)
    IN  /\ t = <<>> => InDirectory(path, DefaultDir, e) /\ DefaultDir \in dirs
        /\ (t # <<>> /\ IsDirTarget(t)) =>
              /\ InDirectory(path, t, e)
              /\ (IF EndsWith(t, <<SEP>>) THEN SubSeq(t, 1, Len(t) - 1) ELSE t) \in dirs
        /\ (t # <<>> /\ ~IsDirTarget(t) /\ \E i \in 1..Len(t) : t[i] = SEP) =>
              ParentDir(t) \in dirs

C11_Returned ==
    /\ (prog = "cli" /\ pc = "cli_saved" /\ ret.err = "none") =>
          /\ events # <<>>
          /\ events[Len(events)].ev = "write"
          /\ ret.val = events[Len(events)].path
          /\ Exists(fs, ret.val)
          /\ fs[ret.val] = events[Len(events)].data
    /\ (prog = "file" /\ pc = "done" /\ ret.err = "none") =>
          /\ Len(events) = 1
          /\ events[1].ev = "write"
          /\ ret.val = events[1].path
          /\ Exists(fs, ret.val)
          /\ fs[ret.val] = events[1].data

\* C11 as stated: with --file, an empty target gives a timestamp-named file
\* in the audio directory, a target that ends in a separator or names an
\* existing directory a timestamp-named file in that directory, and any
\* other target is the path written, verbatim; the directories are made
\* and the path handed back is the path written
C11_Original ==
    /\ C11_Returned
    /\ (prog = "cli" /\ cli.args.file.given) =>
          \A i \in DOMAIN events : events[i].ev = "write" =>
              /\ C11_Shapes(events[i].path)
              /\ (cli.args.file.path # <<>> /\ ~IsDirTarget(cli.args.file.path)) =>
                    events[i].path = cli.args.file.path

\* C11, amended: the same, but any other target is written verbatim only
\* when it ends in the extension of the engine ('.wav' for pyttsx3, '.mp3'
\* for gtts); otherwise what follows its last dot (nothing, when it has no
\* dot) is replaced by that extension
C11_FileSinkPathShapes ==
    /\ C11_Returned
    /\ (prog = "cli" /\ cli.args.file.given) =>
          \A i \in DOMAIN events : events[i].ev = "write" =>
              /\ C11_Shapes(events[i].path)
              /\ (cli.args.file.path # <<>> /\ ~IsDirTarget(cli.args.file.path)) =>
                    LET t == cli.args.file.path
                        e == <<DOT>> \o WrittenExt(cli.engine)
                    IN  IF EndsWith(t, e) THEN events[i].path = t
                        ELSE \E q \in {SubSeq(t, 1, k) : k \in 0..Len(t)} :
                                /\ IsStem(q, t)
                                /\ events[i].path = q \o e

C11_Witness ==
    /\ prog = "cli" /\ pc = "done" /\ cli.exit = "0"
    /\ cli.args.file.path = <<"x", SEP, "o">>
    /\ cli.engine = "pyttsx3"
    /\ cli.filename = <<"x", SEP, "o">> \o EXT_WAV
    /\ Exists(fs, cli.filename)
    /\ <<"x">> \in dirs

IsDigit(c) == \E k \in 1..10 : Digits[k] = c

\* ts reads YYYYMMDD_HHMMSS, the seconds being those of the clock
IsTimestamp(ts) ==
    /\ Len(ts) = 15
    /\ ts[9] = "_"
    /\ \A k \in (1..8) \cup (10..15) : IsDigit(ts[k])
    /\ \E d1, d2 \in 0..9 :
          /\ ts[14] = Digits[d1 + 1] /\ ts[15] = Digits[d2 + 1]
          /\ clock % 60 = 10 * d1 + d2

\* the extension of an automatically named file
AutoExt(engine) == IF engine = "gtts" THEN MP3 ELSE WAV

\* C12: generate_timestamp_filename(prefix, ext) gives
\* '<YYYYMMDD_HHMMSS>.<ext>' for an empty prefix and
\* '<prefix>_<YYYYMMDD_HHMMSS>.<ext>' otherwise; the names made automatically
\* end in 'mp3' for gtts and in 'wav' for the other engines, in
\* text_to_speech_file and in cli.py alike, and text_to_speech_file keeps
\* the name cli.py made
C12_TimestampFilename ==
    /\ (prog = "timestamp" /\ pc = "done") =>
          LET r == ret.val
              p == arg.prefix
              e == arg.extension
              k == IF p = <<>> THEN 0 ELSE Len(p) + 1
          IN  /\ ret.err = "none"
              /\ Len(r) = k + 15 + 1 + Len(e)
              /\ p # <<>> => SubSeq(r, 1, Len(p)) = p /\ r[Len(p) + 1] = "_"
              /\ IsTimestamp(SubSeq(r, k + 1, k + 15))
              /\ r[k + 16] = DOT
              /\ SubSeq(r, k + 17, Len(r)) = e
    /\ (prog = "file" /\ ~arg.filename.given) =>
          \A i \in DOMAIN calls :
              IsTimestampName(calls[i].filename, AutoExt(calls[i].engine))
    /\ (prog = "cli" /\ cli.args.file.given
          /\ (cli.args.file.path = <<>> \/ IsDirTarget(cli.args.file.path))) =>
          \A i \in DOMAIN calls :
              /\ calls[i].filename = cli.output_filename.path
              /\ InDirectory(calls[i].filename,
                             IF cli.args.file.path = <<>> THEN DefaultDir
                             ELSE cli.args.file.path,
                             AutoExt(calls[i].engine))

C12_Witness ==
    /\ prog = "timestamp" /\ pc = "done"
    /\ arg.prefix = <<"p">> /\ arg.extension = WAV
    /\ clock = 12
    /\ ret.val = <<"p", "_">> \o YMD \o <<"_">> \o HM \o <<"1", "2", DOT, "w", "a", "v">>

FailureEvents == {"write_failed", "bytes_failed"}

\* C13: no retry and no fallback: one call of text_to_speech_file or
\* text_to_speech_bytes invokes the function of the engine asked for at
\* most once and no function of another engine, and when that function
\* raises, the call is over at once with the error
C13_NoRetryNoFallback ==
    /\ InLib =>
          /\ Len(calls) <= 1
          /\ Len(events) <= 1
          /\ \A i \in DOMAIN calls :
                calls[i].engine = arg.engine /\ calls[i].fn = arg.fmt
          /\ (events # <<>> /\ events[1].ev \in FailureEvents) =>
                /\ Returned
                /\ ret.err \in TTSExceptions
                /\ Len(calls) = 1
    /\ prog = "cli" =>
          /\ Len(calls) <= 1
          /\ \A i \in DOMAIN calls : calls[i].engine = cli.engine /\ calls[i].fn = "file"
          /\ \A i \in DOMAIN events : events[i].ev \in FailureEvents =>
                /\ i = Len(events)
                /\ pc \in {"cli_saved", "cli_temp_made", "done"}
                /\ ret.err \in TTSExceptions
                /\ pc = "done" => cli.exit = "1"
    /\ prog = "app" =>
          /\ Len(calls) <= app.n
          /\ \A i \in DOMAIN calls : calls[i].engine = "gtts" /\ calls[i].fn = "file"

C13_Witness ==
    /\ prog = "bytes" /\ pc = "done"
    /\ arg.engine = "pyttsx3" /\ avail.gtts
    /\ Len(calls) = 1 /\ ntemp = 1
    /\ events = <<Ev("bytes_failed", <<>>, NoBytes)>>
    /\ ret.err = "TTSException"

\* the three cases of C14 that need no precedence between them
C14_Common ==
    prog = "play" =>
        /\ (pl.kind = "path" /\ ~Exists(fs, pl.path)) => ~pl.mixer
        /\ ~avail.pygame => ~pl.mixer /\ ntemp = 0 /\ ~HasEvent("played")
        /\ (~avail.pygame /\ pl.kind \in {"path", "bytes"} /\ pc = "done") =>
              ret.err = "EngineNotAvailableError"
        /\ (pl.kind = "other" /\ pc = "done") =>
              ret.err = "ValidationError" /\ ~pl.mixer

\* C14 as stated: play_audio on a path that does not exist fails with the
\* file-not-found error (a ValidationError) and the mixer is not
\* initialised; on a path or a bytes it fails with EngineNotAvailableError
\* when pygame is not available; on anything else it fails with
\* ValidationError
C14_Original ==
    /\ C14_Common
    /\ (prog = "play" /\ pl.kind = "path" /\ ~Exists(fs, pl.path) /\ pc = "done") =>
          ret.err = "ValidationError"

\* C14, amended: the file-not-found error is the outcome for a missing path
\* when pygame is available; when it is not, the availability error comes
\* first.  The mixer is initialised in neither case
C14_PlayErrors ==
    /\ C14_Common
    /\ (prog = "play" /\ pl.kind = "path" /\ ~Exists(fs, pl.path) /\ pc = "done"
          /\ avail.pygame) =>
          ret.err = "ValidationError"

C14_Witness ==
    /\ prog = "play" /\ lib = "api" /\ pc = "done"
    /\ pl.kind = "path" /\ ~Exists(fs, pl.path) /\ avail.pygame
    /\ ret.err = "ValidationError"
    /\ ~pl.mixer
    /\ events = <<Ev("play_call", pl.path, NoBytes)>>

\* C15 as stated: the engine and the language given to synthesis are the
\* command line's when --engine / --language is given, else the ones .env
\* sets, else 'gtts' and 'en'
C15_ConfigPrecedence ==
    prog = "cli" =>
        \A i \in DOMAIN calls :
            /\ calls[i].engine =
                  IF cli.args.engine # NONE THEN cli.args.engine
                  ELSE IF cli.dotenv.tts_engine # UNSET THEN cli.dotenv.tts_engine
                  ELSE "gtts"
            /\ (cli.argv_language.given /\ cli.argv_language.s # <<>>) =>
                  IsLowerOf(calls[i].language, cli.argv_language.s)
            /\ ~cli.argv_language.given =>
                  IF cli.dotenv.tts_language.given
                  THEN IsLowerOf(calls[i].language, cli.dotenv.tts_language.s)
                  ELSE calls[i].language = <<"e", "n">>

\* C17 as stated: cli.py run with --format bytesio makes the audio with
\* text_to_speech_bytesio, not with text_to_speech_file
C17_BytesioBranchTaken ==
    (prog = "cli" /\ cli.args.format = "bytesio") =>
        \A i \in DOMAIN calls : calls[i].fn = "bytes"

\* the write events, in order
Writes == SelectSeq(events, LAMBDA e : e.ev = "write")

\* C18: batch_tts on a list of n > 0 texts gives the texts to the pipeline
\* one by one in the order of the list, each once, and returns the n names
\* in that order; at the first item that fails it raises TTSException for
\* that index and goes no further; an argument that is not a list, or an
\* empty list, fails with ValidationError before the directory is made and
\* before any engine function runs
C18_BatchContract ==
    prog = "batch" =>
        /\ Len(batch.piped) <= Len(batch.texts)
        /\ \A k \in DOMAIN batch.piped : batch.piped[k] = batch.texts[k]
        /\ Len(calls) <= Len(batch.piped)
        /\ Len(batch.piped) \in {batch.i, batch.i + 1}
        /\ (pc = "done" /\ ret.err = "none") =>
              /\ batch.islist /\ batch.texts # <<>>
              /\ batch.piped = batch.texts
              /\ Len(calls) = Len(batch.texts)
              /\ Len(ret.val) = Len(batch.texts)
              /\ Len(Writes) = Len(batch.texts)
              /\ \A k \in DOMAIN ret.val : ret.val[k] = Writes[k].path
        /\ (pc = "done" /\ ret.err # "none" /\ batch.islist /\ batch.texts # <<>>) =>
              /\ ret.err = "TTSException"
              /\ batch.failed = Len(batch.piped) - 1
              /\ Len(batch.generated_files) = batch.failed
              /\ Len(Writes) = batch.failed
        /\ (~batch.islist \/ batch.texts = <<>>) =>
              /\ dirs = {}
              /\ calls = <<>> /\ lookups = 0 /\ batch.piped = <<>>
              /\ pc \in {"batch_tts", "done"}
              /\ pc = "done" => ret.err = "ValidationError"

C18_Witness ==
    /\ prog = "batch" /\ pc = "done"
    /\ Len(batch.texts) = 2
    /\ Blank(batch.texts[2])
    /\ ret.err = "TTSException"
    /\ batch.failed = 1
    /\ Len(batch.generated_files) = 1
    /\ Len(calls) = 1

\* a file of the temporary directory
IsTemp(p) == Len(p) >= 3 /\ SubSeq(p, 1, 3) = <<SEP, "t", SEP>>

\* the statements at which an adapter holds its temporary file
Holding == {"pyttsx3_run", "pyttsx3_finish", "coqui_synth"}

\* C19: pyttsx3 to_file and to_bytes and Coqui generate leave no temporary
\* file of theirs on disk once they are over, in particular when the
\* backend raised and they return the error (the only temporary file that
\* may be there is the one cli.py made itself)
C19_NoTempAfterFailure ==
    (prog \in {"file", "bytes", "bytesio", "coqui", "batch", "cli", "app"}
        /\ pc \notin Holding) =>
        \A p \in DOMAIN fs :
            IsTemp(p) => (prog = "cli" /\ p = cli.temp_filename)

C19_Witness ==
    /\ prog = "coqui" /\ pc = "done"
    /\ ret.err = "TTSException"
    /\ ntemp = 1
    /\ loc.temp = TempName(0, EXT_WAV)
    /\ loc.model = MULTILINGUAL
    /\ events = <<Ev("bytes_failed", <<>>, NoBytes)>>
    /\ DOMAIN fs = {}

Interrupted == \E i \in 1..Len(events) : events[i].ev \in {"interrupt", "interrupt_early"}
Synthesized == \E i \in 1..Len(events) : events[i].ev = "write"
Played == \E i \in 1..Len(events) : events[i].ev = "played"

\* C16: main of cli.py ends with exit code 0 or 1 and never reaches its end
\* without a return, since it always saves to a file or plays; the code is
\* 0 exactly when the file was written and, if playback was asked for, was
\* played, and nothing was cancelled
C16_ExitCode ==
    prog = "cli" =>
        /\ pc \notin {"cli_fall_through", "cli_bytesio"}
        /\ cli.output_format # "" =>
              ((cli.output_filename.given /\ cli.output_filename.path # <<>>)
                  \/ cli.should_play)
        /\ pc = "done" =>
              /\ cli.exit \in {"0", "1"}
              /\ cli.exit = "0" <=>
                    /\ Synthesized
                    /\ cli.should_play => Played
                    /\ ~Interrupted

C16_Witness ==
    /\ prog = "cli" /\ pc = "done"
    /\ cli.exit = "1"
    /\ Synthesized /\ Played
    /\ events[Len(events)].ev = "interrupt"

\* C20: when KeyboardInterrupt comes inside the try statement of pyttsx3
\* to_file, pyttsx3 to_bytes or play_bytes, the temporary file of the call
\* is deleted before the interrupt leaves the call
C20_TempDeletedOnInterrupt ==
    (prog \in {"file", "bytes", "bytesio", "play"} /\ pc = "done"
        /\ events # <<>> /\ events[Len(events)].ev = "interrupt") =>
        \A p \in DOMAIN fs : ~IsTemp(p)

PlayedBytes == prog = "play" /\ pl.kind = "bytes" /\ pc = "done"

\* C21: a play-from-bytes call that got its temporary file, and in which
\* neither the disk nor the mixer failed, has written the bytes to the
\* file and then loaded and played it, in playback.py and in tts_lib.py
C21_BytesWrittenThenPlayed ==
    (PlayedBytes /\ pl.temp # <<>> /\ ret.err # "Exception") =>
        /\ pl.mixer
        /\ events[Len(events)] = Ev("played", pl.temp, pl.data)

\* C22: after a play-from-bytes call has returned or raised, its temporary
\* file is not on disk
C22_PlayTempDeleted ==
    PlayedBytes => ~(\E p \in DOMAIN fs : IsTemp(p))

\* C23: a pyttsx3 to_bytes that succeeds does not return an empty byte
\* string and a pyttsx3 to_file that succeeds does not leave an empty
\* target file, in libs/pyttsx3.py and in tts_lib.py
C23_Pyttsx3OutputNotEmpty ==
    (prog \in {"file", "bytes"} /\ pc = "done" /\ loc.engine = "pyttsx3"
        /\ ret.err = "none") =>
        IF prog = "file"
        THEN Exists(fs, ret.val) /\ fs[ret.val] # NoBytes
        ELSE ret.val # NoBytes

InEngine == prog \in {"coqui", "piper", "silero"}

\* C24: generate of a neural adapter does not return normally without
\* audio; when the weights are absent it fails, with the remediation text,
\* or fetches them
C24_NoAudioIsAnError ==
    (InEngine /\ pc = "done" /\ ret.err = "none") => ret.val # NoBytes

\* the codes each adapter has a model of its own for
CoquiOwn == {<<"e", "n">>, <<"e", "s">>, <<"f", "r">>, <<"d", "e">>}
PiperOwn ==
    {<<"e", "n">>, <<"r", "u">>, <<"e", "s">>, <<"d", "e">>, <<"f", "r">>, <<"i", "t">>,
     <<"u", "k">>, <<"z", "h">>}
SileroOwn ==
    {<<"r", "u">>, <<"e", "n">>, <<"d", "e">>, <<"e", "s">>, <<"f", "r">>, <<"u", "a">>,
     <<"u", "k">>}

\* the model the adapter of this run resolves for language l
Resolved(l) ==
    CASE prog = "coqui" -> coqui_get_model_name(l)
      [] prog = "piper" -> piper_get_voice_path(l, arg.voices).name
      [] prog = "silero" -> silero_get_model_info(l)[1]

\* the default model of the adapter of this run
DefaultModel ==
    CASE prog = "coqui" -> MULTILINGUAL
      [] prog = "piper" -> "en_US-lessac-medium"
      [] prog = "silero" -> "v3_en"

OwnCodes ==
    CASE prog = "coqui" -> CoquiOwn
      [] prog = "piper" -> PiperOwn
      [] prog = "silero" -> SileroOwn

\* C25: for every 2-letter code the resolver of each neural adapter gives a
\* model identifier: the default model (Coqui: multilingual xtts_v2, Piper
\* and Silero: English) for the codes it has no model for, and a model of
\* its own, other than the default unless the default is that code's, for
\* the others
C25_ResolverTotal ==
    (InEngine /\ pc = "done" /\ arg.available) =>
        /\ loc.model = Resolved(arg.language)
        /\ loc.model # ""
        /\ arg.language \notin OwnCodes => loc.model = DefaultModel
        /\ (arg.language \in OwnCodes /\ loc.model = DefaultModel) =>
              (prog # "coqui" /\ arg.language = <<"e", "n">>)

C25_Witness ==
    /\ prog = "piper" /\ pc = "done" /\ arg.available
    /\ arg.language = <<"x", "x">>
    /\ arg.voices = {"home", "cwd"}
    /\ loc.model = "en_US-lessac-medium"
    /\ loc.voice_dir = "home"
    /\ ret.err = "none"

\* the language of torch hub a Silero model id belongs to
SileroLanguageOf(model_id) ==
    CHOOSE l \in SileroHubLanguages : silero_get_model_info(l)[1] = model_id

\* C29: in generate of silerotts.py the language given to torch.hub.load
\* is the language of the model id and of the speaker get_model_info chose
C29_SileroSameLanguage ==
    (prog = "silero" /\ pc = "done" /\ arg.available) =>
        /\ loc.hub_language = SileroLanguageOf(loc.model)
        /\ loc.speaker = silero_get_model_info(loc.hub_language)[2]

\* the directory part of a path, with its last separator, and the rest
DirPart(p) ==
    LET seps == {i \in 1..Len(p) : p[i] = SEP}
    IN  IF seps = {} THEN <<>>
        ELSE SubSeq(p, 1, CHOOSE i \in seps : \A j \in seps : j <= i)

LastComponent(p) == SubSeq(p, Len(DirPart(p)) + 1, Len(p))

\* C26: text_to_speech_file gives the engine's extension to the last
\* component of the file name only: the result ends with the extension,
\* its directory part is that of the name given, its last component is the
\* one given up to its last dot, and a normalised name is left as it is
C26_ExtensionOfLastComponent ==
    (prog = "normalise" /\ pc = "normalised") =>
        LET given == arg.filename.path
            ext == EngineExt(arg.engine)
        IN  /\ EndsWith(ret.val, ext)
            /\ NormaliseFilename(File(ret.val), arg.engine, clock) = ret.val
            /\ ~EndsWith(given, ext) =>
                  ret.val = DirPart(given) \o RSplitDot(LastComponent(given)) \o ext

PlayOnly == prog = "cli" /\ ~cli.args.file.given

\* C27: in the play-only mode of cli.py the file given to play_audio is the
\* temporary file, which is the file the engine wrote, and when main is
\* over (also after KeyboardInterrupt inside a try statement) no temporary
\* file of the run is on disk
C27_PlayOnlyLeavesNothing ==
    PlayOnly =>
        /\ pc = "play_audio" =>
              /\ pl.kind = "path" /\ pl.path = cli.temp_filename
              /\ events # <<>>
              /\ events[Len(events)].ev = "write"
              /\ events[Len(events)].path = cli.temp_filename
        /\ (pc = "done"
              /\ ~(\E i \in 1..Len(events) : events[i].ev = "interrupt_early")) =>
              \A p \in DOMAIN fs : ~IsTemp(p)

\* C28: in one batch_tts call no two items are written to the same file
\* name, and the names returned are pairwise distinct
C28_BatchNamesDistinct ==
    prog = "batch" =>
        /\ \A i, j \in 1..Len(events) :
              (i < j /\ events[i].ev = "write" /\ events[j].ev = "write") =>
                  events[i].path # events[j].path
        /\ \A i, j \in 1..Len(batch.generated_files) :
              i < j => batch.generated_files[i] # batch.generated_files[j]

\* the statements of a synthesis or playback call made by the loop of app.py
AppLoop == {"app_read", "app_processed", "app_played", "done"}

\* C30: the loop of app.py ends only on quit, exit or q in any case, on
\* KeyboardInterrupt or on end of input; empty input, help, clear and list
\* do not start a synthesis; play_audio is only called on a file that was
\* just written; no failure ends the loop or removes a saved file
C30_AppLoop ==
    prog = "app" =>
        /\ pc = "done" =>
              /\ app.ended \in {"quit", "eof", "interrupt"}
              /\ app.ended = "quit" => Lower(app.user_input) \in QuitWords
        /\ pc \notin AppLoop =>
              /\ app.user_input # <<>>
              /\ Lower(app.user_input) \notin QuitWords \cup OtherWords
        /\ Len(calls) <= app.n
        /\ \A i \in 1..Len(events) :
              /\ events[i].ev = "play_call" =>
                    /\ i > 1
                    /\ events[i - 1].ev = "write"
                    /\ events[i - 1].path = events[i].path
              /\ events[i].ev = "write" => Exists(fs, events[i].path)

C30_Witness ==
    /\ prog = "app" /\ pc = "done"
    /\ app.ended = "quit" /\ app.n = MaxInputs
    /\ app.user_input = <<"q">>
    /\ Len(events) = 2
    /\ events[1].ev = "write" /\ events[2].ev = "play_call"
    /\ ret.err = "TTSException"
    /\ Exists(fs, events[1].path)

====
